---- MODULE Spec2Model ----
(***************************************************************************)
(* A model of plexy's runtime engine: the tunnel registry (src/state.rs),  *)
(* the load-balancing strategies (src/state/strategy.rs), the tunnel       *)
(* lifecycle and the per-connection processor (src/lib.rs), the dead-remote*)
(* prober (State::check_dead) and the copy engine (src/aio.rs).            *)
(*                                                                         *)
(* Conventions                                                             *)
(*  - Option<T> is a set with at most one element: {} is None, {x} Some(x).*)
(*  - An IndexMap is a sequence of [k |-> key, v |-> value] entries; the   *)
(*    0-based index i of the code is position i + 1 of the sequence.       *)
(*  - A usize counter is kept as the representative of its value modulo    *)
(*    2^64 that lies nearest to 0: a value below 0 stands for a counter    *)
(*    that wrapped around (-1 is usize::MAX).  Sums and differences of     *)
(*    representatives are exactly the wrapping sums and differences; the   *)
(*    unsigned order is ULt.                                               *)
(*  - overflow_checks is the build: TRUE for a build that panics on        *)
(*    arithmetic overflow (debug profile), FALSE for one that wraps        *)
(*    (release profile).  It is chosen once and never changes.             *)
(***************************************************************************)
EXTENDS Integers, Sequences, FiniteSets, TLC

\* ------------------------------------------------------------------ bounds
\* Number of client connections the environment opens in one behaviour.
MaxClients == 2
\* Number of tunnel instances (successful start_tunnel calls) per behaviour.
MaxGens == 2
\* Number of prober tasks spawned per behaviour.
MaxProbers == 2
\* Largest remote_connect_retries a tunnel is opened with.
MaxRetries == 2
\* Largest errors_till_dead a tunnel is opened with.
MaxErrorsTillDead == 2

\* Each behaviour stretches some of the bounds and keeps the others at 1:
\* concurrent clients, a local opened again after it was closed, or a tunnel
\* whose remotes are added and removed at run time.
Profiles ==
    {[clients |-> MaxClients, gens |-> 1, probers |-> MaxProbers, admin |-> FALSE],
     [clients |-> 1, gens |-> MaxGens, probers |-> MaxProbers, admin |-> FALSE],
     [clients |-> 1, gens |-> 1, probers |-> MaxProbers, admin |-> TRUE]}

Locals == {"L"}
RemoteKeys == {"A", "B"}
Clients == 1..MaxClients
Strategies == {"Random", "RoundRobin", "MinimumOpenConnections"}

VARIABLES
    tunnels,          \* StateInner.tunnels: registered local |-> TunnelInfo
    close_channel,    \* per tunnel instance: the watch channel's value
    run_tunnel_task,  \* per tunnel instance: its accept loop, "running" or "done"
    listener,         \* local |-> Option<instance holding the bound TcpListener>
    conns,            \* client |-> its process_socket task
    probers,          \* sequence of the check_dead tasks spawned so far
    lim,              \* the limits of this behaviour, one of Profiles
    overflow_checks,  \* the build: panics on overflow (TRUE) or wraps (FALSE)
    selected,         \* SpecLB: what the select_remote calls made so far returned
    copy,             \* SpecCopy: one connection's CopyBidirectional future
    ret,              \* SpecReg: the last control call and what it returned
    tasks,            \* SpecMain, SpecLock: tasks followed statement by statement
    DEFAULT_TUNNEL_OPTIONS  \* the static mut of tunnel.rs

vars == <<tunnels, close_channel, run_tunnel_task, listener, conns, probers,
          lim, overflow_checks, selected, copy, ret, tasks,
          DEFAULT_TUNNEL_OPTIONS>>

\* ------------------------------------------------------------- Option<T>
None == {}
Some(x) == {x}
Unwrap(o) == CHOOSE x \in o : TRUE

\* --------------------------------------------------------------- usize
\* usize::MAX, as the representative of 2^64 - 1.
USIZE_MAX == 0 - 1
\* a < b for two usize values given by their representatives.
ULt(a, b) == IF (a >= 0) <=> (b >= 0) THEN a < b ELSE a >= 0

\* ------------------------------------------------------------- IndexMap
Keys(m) == {m[i].k : i \in DOMAIN m}
contains_key(m, k) == k \in Keys(m)
IndexOf(m, k) == CHOOSE i \in DOMAIN m : m[i].k = k
get(m, k) == m[IndexOf(m, k)].v
\* A faulty insert that puts a new key first; C19's formula must tell it
\* from insert.
insert_first(m, k, v) ==
    IF contains_key(m, k)
    THEN [m EXCEPT ![IndexOf(m, k)] = [k |-> k, v |-> v]]
    ELSE <<[k |-> k, v |-> v]>> \o m

\* IndexMap::insert: a new key goes last, a present key keeps its position.
insert(m, k, v) ==
    IF contains_key(m, k)
    THEN [m EXCEPT ![IndexOf(m, k)] = [k |-> k, v |-> v]]
    ELSE Append(m, [k |-> k, v |-> v])
\* IndexMap::remove is swap_remove: the last entry takes the removed one's place.
remove(m, k) ==
    IF ~contains_key(m, k) THEN m
    ELSE LET i == IndexOf(m, k)
             n == Len(m)
         IN [j \in 1..(n - 1) |-> IF j = i THEN m[n] ELSE m[j]]
\* entry update in place (get_mut)
set(m, k, v) == [m EXCEPT ![IndexOf(m, k)] = [k |-> k, v |-> v]]

\* ------------------------------------------------------------ records
RemoteInfo_default ==
    [streams_open |-> 0, streams_pending |-> 0, total_connections |-> 0,
     num_errors |-> 0, total_errors |-> 0, bytes_sent |-> 0, bytes_received |-> 0]

TunnelStats_default ==
    [streams_open |-> 0, total_connections |-> 0, errors |-> 0,
     bytes_sent |-> 0, bytes_received |-> 0]

RECURSIVE collect(_, _)
\* remotes.into_iter().map(|k| (k, RemoteInfo::default())).collect(): the
\* keys of the Vec in order, a repeated key keeping its first position.
collect(m, ks) ==
    IF ks = <<>> THEN m
    ELSE collect(insert(m, Head(ks), RemoteInfo_default), Tail(ks))

\* TunnelInfo::new.  inst (the instance number) and the event counts
\* n_connected / n_disconnected / n_remote_connected (calls of the event
\* sinks that found the tunnel) are history fields: the code does not hold
\* them.
TunnelInfo_new(inst, remote, options) ==
    [inst |-> inst,
     stats |-> TunnelStats_default,
     remotes |-> collect(<<>>, remote),
     dead_remotes |-> <<>>,
     options |-> options,
     last_selected_index |-> None,
     n_connected |-> 0,
     n_disconnected |-> 0,
     n_remote_connected |-> 0]

\* ------------------------------------------------- load-balancing strategies
\* Each strategy gives the set of indices (0-based) it may return for a tunnel
\* with at least two live remotes.

\* A faulty Random that draws from 0..=size; C38's formula must tell it from
\* Random_select_remote.
Random_select_remote_inclusive(ti) == 0..Len(ti.remotes)

\* Random::select_remote: gen_range(0..size)
Random_select_remote(ti) == 0..(Len(ti.remotes) - 1)

\* usize::saturating_sub
saturating_sub(a, b) == IF ULt(a, b) THEN 0 ELSE a - b

\* A faulty RoundRobin that starts a tunnel with no selection yet from
\* unwrap_or(0); C9's formula must tell it from RoundRobin_select_remote.
RoundRobin_select_remote_or_0(ti) ==
    LET size == Len(ti.remotes)
        last == IF ti.last_selected_index = None
                THEN 0
                ELSE Unwrap(ti.last_selected_index)
    IN {(last + 1) % size}

\* RoundRobin::select_remote
RoundRobin_select_remote(ti) ==
    LET size == Len(ti.remotes)
        last == IF ti.last_selected_index = None
                THEN saturating_sub(Len(ti.remotes), 1)
                ELSE Unwrap(ti.last_selected_index)
    IN {(last + 1) % size}

\* The load MinimumOpenConnections reads off a remote (a wrapping sum).
open_conns(r) == r.streams_open + r.streams_pending

RECURSIVE MinLoop_le(_, _, _, _)
\* A faulty loop that compares with <= in place of <; C10's formula must
\* tell it from MinLoop.
MinLoop_le(remotes, idx, min_idx, min_val) ==
    IF idx >= Len(remotes) THEN min_idx
    ELSE LET oc == open_conns(remotes[idx + 1].v)
         IN IF oc = 0 THEN idx
            ELSE IF ~ULt(min_val, oc) THEN MinLoop_le(remotes, idx + 1, idx, oc)
            ELSE MinLoop_le(remotes, idx + 1, min_idx, min_val)

RECURSIVE MinLoop(_, _, _, _)
\* The for loop of MinimumOpenConnections::select_remote, from position idx
\* (0-based) on, with the running min_idx and min_val.
MinLoop(remotes, idx, min_idx, min_val) ==
    IF idx >= Len(remotes) THEN min_idx
    ELSE LET oc == open_conns(remotes[idx + 1].v)
         IN IF oc = 0 THEN idx
            ELSE IF ULt(oc, min_val) THEN MinLoop(remotes, idx + 1, idx, oc)
            ELSE MinLoop(remotes, idx + 1, min_idx, min_val)

\* MinimumOpenConnections::select_remote
MinimumOpenConnections_select_remote(ti) ==
    {MinLoop(ti.remotes, 0, 0, USIZE_MAX)}

\* dyn LBStrategy dispatch on the strategy TunnelLBStrategy::create made.
LBStrategy_select_remote(ti) ==
    CASE ti.options.lb_strategy = "Random" -> Random_select_remote(ti)
      [] ti.options.lb_strategy = "RoundRobin" -> RoundRobin_select_remote(ti)
      [] OTHER -> MinimumOpenConnections_select_remote(ti)

\* TunnelInfo::select_remote: the set of its possible outcomes, each
\* [ok, key, ti]: Ok(key) or Err(NoRemote), and the TunnelInfo it leaves.
TunnelInfo_select_remote(ti) ==
    LET size == Len(ti.remotes)
        idxs == IF size = 1 THEN {0} ELSE LBStrategy_select_remote(ti)
    IN IF size = 0
       THEN {[ok |-> FALSE, key |-> None, ti |-> ti]}
       ELSE {LET ti2 == [ti EXCEPT !.last_selected_index = Some(idx)]
             IN IF idx + 1 \in DOMAIN ti.remotes
                THEN [ok |-> TRUE, key |-> Some(ti.remotes[idx + 1].k), ti |-> ti2]
                ELSE [ok |-> FALSE, key |-> None, ti |-> ti2]
             : idx \in idxs}

\* ------------------------------------------------------- State: the registry
\* Every operation below runs under the DashMap entry lock of one tunnel (or
\* of the shard, for insert and remove), so each is one atomic step.  t is the
\* tunnels map before the call.

\* State::remote_retries
State_remote_retries(t, local) ==
    IF local \in DOMAIN t
    THEN [ok |-> TRUE, retries |-> t[local].options.remote_connect_retries]
    ELSE [ok |-> FALSE, retries |-> 0]

\* State::select_remote: the set of outcomes [ok, err, key, options, t];
\* options is the errors_till_dead of the TunnelRemoteOptions it clones.
State_select_remote(t, local) ==
    IF local \notin DOMAIN t
    THEN {[ok |-> FALSE, err |-> "TunnelDoesNotExist", key |-> None,
           options |-> None, timing |-> None, t |-> t]}
    ELSE {IF ~o.ok \/ ~contains_key(o.ti.remotes, Unwrap(o.key))
          THEN [ok |-> FALSE, err |-> "NoRemote", key |-> None, options |-> None,
                timing |-> None,
                t |-> [t EXCEPT ![local] = o.ti]]
          ELSE LET sel == Unwrap(o.key)
                   r == get(o.ti.remotes, sel)
                   r2 == [r EXCEPT !.streams_pending = @ + 1]
               IN [ok |-> TRUE, err |-> "", key |-> o.key,
                   options |-> Some(o.ti.options.errors_till_dead),
                   timing |-> Some([connect_timeout |-> o.ti.options.connect_timeout,
                                    dead_retry |-> o.ti.options.dead_retry]),
                   t |-> [t EXCEPT ![local] =
                            [o.ti EXCEPT !.remotes = set(@, sel, r2)]]]
          : o \in TunnelInfo_select_remote(t[local])}

\* A faulty add_tunnel with no contains_key test, whose insert replaces the
\* entry of a registered local; C14's formula must tell it from
\* State_add_tunnel.
State_add_tunnel_insert(t, local, remote, options, inst) ==
    [res |-> "Ok",
     t |-> [l \in DOMAIN t \cup {local} |->
              IF l = local THEN TunnelInfo_new(inst, remote, options)
              ELSE t[l]]]

\* State::add_tunnel
State_add_tunnel(t, local, remote, options, inst) ==
    IF local \in DOMAIN t
    THEN [res |-> "TunnelExists", t |-> t]
    ELSE [res |-> "Ok",
          t |-> [l \in DOMAIN t \cup {local} |->
                   IF l = local THEN TunnelInfo_new(inst, remote, options)
                   ELSE t[l]]]

\* The JoinHandles State::remove_tunnel aborts: those the dead entries hold.
HandlesOf(ti) ==
    UNION {ti.dead_remotes[i].v.join_handle : i \in DOMAIN ti.dead_remotes}

\* A faulty remove_tunnel that reads the entry (get) and leaves it in the
\* map; C1's formula must tell it from State_remove_tunnel.
State_remove_tunnel_get(t, local) ==
    IF local \notin DOMAIN t
    THEN [res |-> "TunnelDoesNotExist", t |-> t, info |-> None, aborted |-> {}]
    ELSE [res |-> "Ok", t |-> t, info |-> Some(t[local]),
          aborted |-> HandlesOf(t[local])]

\* A faulty remove_tunnel that clears the map; C15's formula must tell it
\* from State_remove_tunnel.
State_remove_tunnel_clear(t, local) ==
    IF local \notin DOMAIN t
    THEN [res |-> "TunnelDoesNotExist", t |-> t, info |-> None, aborted |-> {}]
    ELSE [res |-> "Ok",
          t |-> [l \in {} |-> t[l]],
          info |-> Some(t[local]),
          aborted |-> HandlesOf(t[local])]

\* State::remove_tunnel: [res, t, info, aborted]
State_remove_tunnel(t, local) ==
    IF local \notin DOMAIN t
    THEN [res |-> "TunnelDoesNotExist", t |-> t, info |-> None, aborted |-> {}]
    ELSE [res |-> "Ok",
          t |-> [l \in DOMAIN t \ {local} |-> t[l]],
          info |-> Some(t[local]),
          aborted |-> HandlesOf(t[local])]

\* A faulty add_remote_to_tunnel that tests the live map alone; C4's
\* formula must tell it from State_add_remote_to_tunnel.
State_add_remote_to_tunnel_live_only(t, local, remote) ==
    IF local \notin DOMAIN t THEN [res |-> "TunnelDoesNotExist", t |-> t]
    ELSE IF ~contains_key(t[local].remotes, remote)
    THEN [res |-> "Ok",
          t |-> [t EXCEPT ![local].remotes = insert(@, remote, RemoteInfo_default)]]
    ELSE [res |-> "RemoteExists", t |-> t]

\* State::add_remote_to_tunnel
State_add_remote_to_tunnel(t, local, remote) ==
    IF local \notin DOMAIN t THEN [res |-> "TunnelDoesNotExist", t |-> t]
    ELSE IF ~contains_key(t[local].remotes, remote)
            /\ ~contains_key(t[local].dead_remotes, remote)
    THEN [res |-> "Ok",
          t |-> [t EXCEPT ![local].remotes = insert(@, remote, RemoteInfo_default)]]
    ELSE [res |-> "RemoteExists", t |-> t]

\* State::remove_remote_from_tunnel.  The DeadRemote taken out of
\* dead_remotes is dropped with its JoinHandle; dropping a JoinHandle
\* detaches the task, it does not abort it.
State_remove_remote_from_tunnel(t, local, remote) ==
    IF local \notin DOMAIN t THEN [res |-> "TunnelDoesNotExist", t |-> t]
    ELSE IF contains_key(t[local].remotes, remote)
    THEN [res |-> "Ok", t |-> [t EXCEPT ![local].remotes = remove(@, remote)]]
    ELSE IF contains_key(t[local].dead_remotes, remote)
    THEN [res |-> "Ok", t |-> [t EXCEPT ![local].dead_remotes = remove(@, remote)]]
    ELSE [res |-> "RemoteDoesNotExist", t |-> t]

\* State::tunnel_exists
State_tunnel_exists(t, local) == local \in DOMAIN t

\* State::number_of_tunnels
State_number_of_tunnels(t) == Cardinality(DOMAIN t)

\* State::list_tunnels
State_list_tunnels(t) == DOMAIN t

\* ---------------------------------------------------- State: the event sinks
\* An event sink that decrements a usize gives [t, panic]: the map it leaves
\* and the decrement it panicked at, "" if it returned.  A decrement of a
\* counter that is 0 panics in a build with overflow checks (the updates made
\* before it stay) and wraps in a build without.  oc is overflow_checks.

\* State::client_connected
State_client_connected(t, local) ==
    IF local \in DOMAIN t
    THEN [t EXCEPT ![local].stats.total_connections = @ + 1,
                   ![local].stats.streams_open = @ + 1,
                   ![local].n_connected = @ + 1]
    ELSE t

\* A faulty remote_connected that leaves num_errors as it was; C8's
\* formula must tell it from State_remote_connected.
State_remote_connected_keeps_errors(t, local, remote, oc) ==
    IF local \notin DOMAIN t THEN [t |-> t, panic |-> ""]
    ELSE IF ~contains_key(t[local].remotes, remote)
    THEN [t |-> [t EXCEPT ![local].n_remote_connected = @ + 1], panic |-> ""]
    ELSE LET rec == get(t[local].remotes, remote)
             under == rec.streams_pending = 0
             rec1 == [rec EXCEPT !.streams_open = @ + 1,
                                 !.total_connections = @ + 1]
             rec2 == [rec1 EXCEPT !.streams_pending = @ - 1]
         IN IF under /\ oc
            THEN [t |-> [t EXCEPT ![local].remotes = set(@, remote, rec1),
                                  ![local].n_remote_connected = @ + 1],
                  panic |-> "remote_connected.streams_pending"]
            ELSE [t |-> [t EXCEPT ![local].remotes = set(@, remote, rec2),
                                  ![local].n_remote_connected = @ + 1],
                  panic |-> ""]

\* State::remote_connected
State_remote_connected(t, local, remote, oc) ==
    IF local \notin DOMAIN t THEN [t |-> t, panic |-> ""]
    ELSE IF ~contains_key(t[local].remotes, remote)
    THEN [t |-> [t EXCEPT ![local].n_remote_connected = @ + 1], panic |-> ""]
    ELSE LET rec == get(t[local].remotes, remote)
             under == rec.streams_pending = 0
             rec1 == [rec EXCEPT !.streams_open = @ + 1,
                                 !.total_connections = @ + 1]
             rec2 == [rec1 EXCEPT !.streams_pending = @ - 1,
                                  !.num_errors = 0]
         IN IF under /\ oc
            THEN [t |-> [t EXCEPT ![local].remotes = set(@, remote, rec1),
                                  ![local].n_remote_connected = @ + 1],
                  panic |-> "remote_connected.streams_pending"]
            ELSE [t |-> [t EXCEPT ![local].remotes = set(@, remote, rec2),
                                  ![local].n_remote_connected = @ + 1],
                  panic |-> ""]

\* State::client_disconnected; remote is last_remote, an Option.
State_client_disconnected(t, local, remote, oc) ==
    IF local \notin DOMAIN t THEN [t |-> t, panic |-> ""]
    ELSE LET under1 == t[local].stats.streams_open = 0
             t1 == [t EXCEPT ![local].stats.streams_open = @ - 1,
                             ![local].n_disconnected = @ + 1]
             found == remote # None /\ contains_key(t[local].remotes, Unwrap(remote))
             rec == get(t[local].remotes, Unwrap(remote))
             under2 == found /\ rec.streams_open = 0
             t2 == IF found
                   THEN [t1 EXCEPT ![local].remotes =
                           set(@, Unwrap(remote), [rec EXCEPT !.streams_open = @ - 1])]
                   ELSE t1
         IN IF under1 /\ oc
            THEN [t |-> t, panic |-> "client_disconnected.stats.streams_open"]
            ELSE IF under2 /\ oc
            THEN [t |-> t1, panic |-> "client_disconnected.streams_open"]
            ELSE [t |-> t2, panic |-> ""]

\* A faulty update_transferred that books the two directions the other way
\* round; C23's formula must tell it from State_update_transferred.
State_update_transferred_swapped(t, local, remote, sent, bytes) ==
    IF local \notin DOMAIN t THEN t
    ELSE LET t1 == IF ~sent
                   THEN [t EXCEPT ![local].stats.bytes_sent = @ + bytes]
                   ELSE [t EXCEPT ![local].stats.bytes_received = @ + bytes]
         IN IF ~contains_key(t[local].remotes, remote) THEN t1
            ELSE LET rec == get(t[local].remotes, remote)
                 IN [t1 EXCEPT ![local].remotes =
                        set(@, remote,
                            IF ~sent
                            THEN [rec EXCEPT !.bytes_sent = @ + bytes]
                            ELSE [rec EXCEPT !.bytes_received = @ + bytes])]

\* State::update_transferred
State_update_transferred(t, local, remote, sent, bytes) ==
    IF local \notin DOMAIN t THEN t
    ELSE LET t1 == IF sent
                   THEN [t EXCEPT ![local].stats.bytes_sent = @ + bytes]
                   ELSE [t EXCEPT ![local].stats.bytes_received = @ + bytes]
         IN IF ~contains_key(t[local].remotes, remote) THEN t1
            ELSE LET rec == get(t[local].remotes, remote)
                 IN [t1 EXCEPT ![local].remotes =
                        set(@, remote,
                            IF sent
                            THEN [rec EXCEPT !.bytes_sent = @ + bytes]
                            ELSE [rec EXCEPT !.bytes_received = @ + bytes])]

\* A faulty threshold test, off by one (>); C6's formula must tell it from
\* is_dead.
is_dead_gt(num_errors, errors_till_dead) == num_errors > errors_till_dead

\* is_dead = remote_info.num_errors >= options.errors_till_dead
is_dead(num_errors, errors_till_dead) == num_errors >= errors_till_dead

\* State::remote_error; etd is options.errors_till_dead of the options the
\* caller got from select_remote, handle the JoinHandle check_dead returns
\* if the remote goes dead.  [t, panic, spawned]
State_remote_error(t, local, remote, etd, handle, oc) ==
    IF local \notin DOMAIN t
    THEN [t |-> t, panic |-> "", spawned |-> FALSE]
    ELSE LET t1 == [t EXCEPT ![local].stats.errors = @ + 1]
         IN IF ~contains_key(t[local].remotes, remote)
            THEN [t |-> t1, panic |-> "", spawned |-> FALSE]
            ELSE LET rec == get(t[local].remotes, remote)
                     under == rec.streams_pending = 0
                     rec1 == [rec EXCEPT !.total_errors = @ + 1,
                                         !.num_errors = @ + 1]
                     rec2 == [rec1 EXCEPT !.streams_pending = @ - 1]
                     dead == is_dead(rec2.num_errors, etd)
                 IN IF under /\ oc
                    THEN [t |-> [t1 EXCEPT ![local].remotes = set(@, remote, rec1)],
                          panic |-> "remote_error.streams_pending",
                          spawned |-> FALSE]
                    ELSE IF dead
                    THEN [t |-> [t1 EXCEPT
                                   ![local].remotes = remove(@, remote),
                                   ![local].dead_remotes =
                                       insert(@, remote,
                                              [remote |-> rec2,
                                               join_handle |-> Some(handle)])],
                          panic |-> "", spawned |-> TRUE]
                    ELSE [t |-> [t1 EXCEPT ![local].remotes = set(@, remote, rec2)],
                          panic |-> "", spawned |-> FALSE]

\* ------------------------------------------------ State::check_dead, the task
\* A faulty promotion that reads the dead entry (get) and leaves it in
\* dead_remotes; C7's formula must tell it from check_dead_connected.
check_dead_connected_get(t, local, remote) ==
    IF local \in DOMAIN t /\ contains_key(t[local].dead_remotes, remote)
    THEN LET rec == get(t[local].dead_remotes, remote).remote
         IN [t EXCEPT ![local].remotes =
                          insert(@, remote, [rec EXCEPT !.num_errors = 0])]
    ELSE t

\* A faulty Ok(Ok(_conn)) branch that inserts the remote into remotes of the
\* tunnel under the local key whether or not dead_remotes holds it; C27's
\* formula must tell it from check_dead_connected.
check_dead_connected_unguarded(t, local, remote) ==
    IF local \in DOMAIN t
    THEN LET rec == IF contains_key(t[local].dead_remotes, remote)
                    THEN get(t[local].dead_remotes, remote).remote
                    ELSE RemoteInfo_default
         IN [t EXCEPT ![local].dead_remotes = remove(@, remote),
                      ![local].remotes =
                          insert(@, remote, [rec EXCEPT !.num_errors = 0])]
    ELSE t

\* The Ok(Ok(_conn)) branch of the prober task: promote the dead entry.
check_dead_connected(t, local, remote) ==
    IF local \in DOMAIN t /\ contains_key(t[local].dead_remotes, remote)
    THEN LET rec == get(t[local].dead_remotes, remote).remote
         IN [t EXCEPT ![local].dead_remotes = remove(@, remote),
                      ![local].remotes =
                          insert(@, remote, [rec EXCEPT !.num_errors = 0])]
    ELSE t

\* A faulty failure branch that never calls check_dead again; C18's formula
\* must tell it from check_dead_rearms.
check_dead_rearms_never(t, local, remote) == FALSE

\* Whether the Ok(Err(_)) | Err(_) branch finds the dead entry, and so
\* calls check_dead again.
check_dead_rearms(t, local, remote) ==
    local \in DOMAIN t /\ contains_key(t[local].dead_remotes, remote)

\* A faulty failure branch that counts the error and leaves the finished
\* task's handle in the entry; C28's formula must tell it from
\* check_dead_failed.
check_dead_failed_keeps_handle(t, local, remote, handle) ==
    IF check_dead_rearms(t, local, remote)
    THEN LET d == get(t[local].dead_remotes, remote)
             info == [d.remote EXCEPT !.total_errors = @ + 1,
                                      !.num_errors = @ + 1]
         IN [t EXCEPT ![local].dead_remotes =
                 set(@, remote, [remote |-> info, join_handle |-> d.join_handle])]
    ELSE t

\* The Ok(Err(_)) | Err(_) branch; handle is the new task's JoinHandle.
check_dead_failed(t, local, remote, handle) ==
    IF check_dead_rearms(t, local, remote)
    THEN LET d == get(t[local].dead_remotes, remote)
             info == [d.remote EXCEPT !.total_errors = @ + 1,
                                      !.num_errors = @ + 1]
         IN [t EXCEPT ![local].dead_remotes =
                 set(@, remote, [remote |-> info, join_handle |-> Some(handle)])]
    ELSE t

\* The seconds of Duration::from_secs_f32(10.0), the literal remote_error
\* passes to check_dead as `after`.
dead_check_after == 10

\* What remote_error passes to check_dead as `after`, the delay before the
\* probe: the literal, whatever the options say.
remote_error_after(options) == dead_check_after

\* What remote_error passes to check_dead as `timeout`.
remote_error_timeout(options) == options.connect_timeout

\* tokio::spawn(f) in check_dead: the task list with the new task, whose
\* JoinHandle is its position.  inst, the instance of the tunnel the task is
\* spawned for, is a history field (the task holds the local key alone), and
\* so is connected, whether the task's connect succeeded.
check_dead(ps, t, local, remote, timeout, after) ==
    Append(ps, [local |-> local, remote |-> remote, inst |-> t[local].inst,
                timeout |-> timeout, after |-> after, st |-> "scheduled",
                connected |-> FALSE])

\* JoinHandle::abort on each handle of hs: a task that has not finished is
\* cancelled at its await.
abort(ps, hs) ==
    [h \in DOMAIN ps |->
        IF h \in hs /\ ps[h].st = "scheduled"
        THEN [ps[h] EXCEPT !.st = "aborted"]
        ELSE ps[h]]

\* ------------------------------------------------------------------- Init
\* A process_socket task that has not been spawned; also the shape its
\* locals are reset to when they go out of scope.
\* Besides the locals of the code a task carries history fields the code
\* does not hold: counted (the tunnel instance its client_connected was
\* applied to), configured (the retries remote_retries gave it), attempts
\* (select_remote calls that returned Ok, each followed by a connect),
\* n_remote_error and n_remote_connected (calls of the two event sinks) and
\* connected_to (the remote its connect succeeded to).
IdleConn ==
    [pc |-> "idle", tunnel_key |-> None, rx |-> None, retries |-> 0,
     remote |-> None, etd |-> None, timing |-> None, last_remote |-> None,
     counted |-> None, configured |-> None, attempts |-> 0,
     n_remote_error |-> 0, n_remote_connected |-> 0, connected_to |-> None]

\* No copy_bidirectional future is followed (Spec and SpecLB).
NoCopy == [result |-> [res |-> "none"]]

\* No control call is recorded.
NoRet == [op |-> "none", n |-> 0]

\* The initializer of static mut DEFAULT_TUNNEL_OPTIONS, with writes, a
\* history field: the number of set_default_tunnel_options calls made.
DefaultTunnelOptions ==
    [value |-> [lb_strategy |-> "Random", remote_connect_retries |-> 3,
                errors_till_dead |-> 1, connect_timeout |-> 10,
                dead_retry |-> 10],
     writes |-> 0]

\* State::new: an empty registry; no listener, no task.
Init ==
    /\ tunnels = [l \in {} |-> 0]
    /\ close_channel = <<>>
    /\ run_tunnel_task = <<>>
    /\ listener = [l \in Locals |-> None]
    /\ conns = [c \in Clients |-> IdleConn]
    /\ probers = <<>>
    /\ lim \in Profiles
    /\ overflow_checks \in BOOLEAN
    /\ selected = <<>>
    /\ copy = NoCopy
    /\ ret = NoRet
    /\ tasks = <<>>
    /\ DEFAULT_TUNNEL_OPTIONS = DefaultTunnelOptions

\* --------------------------------------------------------- tunnel lifecycle
\* The tunnel definitions start_tunnel is called with.
RemoteLists == {<<"A">>, <<"A", "B">>}
\* Random may return every index the other two strategies return, so the
\* retry and dead-threshold options are varied under Random alone.
TunnelOptionsSet ==
    [lb_strategy : {"Random"},
     remote_connect_retries : 0..MaxRetries,
     errors_till_dead : 1..MaxErrorsTillDead,
     connect_timeout : {10},
     dead_retry : {10}]
      \cup [lb_strategy : Strategies,
            remote_connect_retries : {MaxRetries},
            errors_till_dead : {1},
            connect_timeout : {10},
            dead_retry : {10}]

\* The Result of start_tunnel called in the current state: create_tunnel's
\* tunnel_exists test, then TcpListener::bind, which fails while an accept
\* loop still holds a listener on the address, then add_tunnel.
start_tunnel_ret(local) ==
    IF State_tunnel_exists(tunnels, local) THEN "TunnelExists"
    ELSE IF listener[local] # None THEN "IO"
    ELSE "Ok"

\* start_tunnel: create_tunnel (tunnel_exists, bind, watch::channel(false),
\* add_tunnel), then tokio::spawn(run_tunnel).
start_tunnel(local, remote, options) ==
    LET inst == Len(close_channel) + 1
    IN /\ start_tunnel_ret(local) = "Ok"
       /\ inst <= lim.gens
       /\ tunnels' = State_add_tunnel(tunnels, local, remote, options, inst).t
       /\ close_channel' = Append(close_channel, FALSE)
       /\ run_tunnel_task' = Append(run_tunnel_task, "running")
       /\ listener' = [listener EXCEPT ![local] = Some(inst)]

StartTunnel ==
    /\ \E local \in Locals, remote \in RemoteLists, options \in TunnelOptionsSet :
          start_tunnel(local, remote, options)
    /\ UNCHANGED <<tasks, DEFAULT_TUNNEL_OPTIONS, conns, probers, lim, overflow_checks, selected, copy, ret>>

\* close_channel.send(true) on the removed TunnelInfo's sender.
send_true(cc, info) == [cc EXCEPT ![info.inst] = TRUE]

\* The Result of stop_tunnel called in the current state.
stop_tunnel_ret(local) == State_remove_tunnel(tunnels, local).res

\* stop_tunnel: remove_tunnel (which aborts the probers of the dead
\* entries), then send(true) on the close channel.
stop_tunnel(local) ==
    LET removed == State_remove_tunnel(tunnels, local)
    IN /\ removed.res = "Ok"
       /\ tunnels' = removed.t
       /\ probers' = abort(probers, removed.aborted)
       /\ close_channel' = send_true(close_channel, Unwrap(removed.info))

StopTunnel ==
    /\ \E local \in Locals : stop_tunnel(local)
    /\ UNCHANGED <<tasks, DEFAULT_TUNNEL_OPTIONS, run_tunnel_task, listener, conns, lim, overflow_checks,
                   selected, copy, ret>>

\* Whether a receiver cloned from the channel of instance inst sees a
\* change: every receiver of a tunnel is cloned from the handler's, which
\* has seen only the initial value, so a sent value stays visible to it.
changed(inst) == close_channel[inst]

\* run_tunnel, the accept branch of select!: spawn process_socket for the
\* next client with a clone of the close receiver.
Accept ==
    /\ \E local \in Locals, c \in Clients :
          /\ listener[local] # None
          /\ run_tunnel_task[Unwrap(listener[local])] = "running"
          /\ c <= lim.clients
          /\ conns[c].pc = "idle"
          /\ \A d \in Clients : d < c => conns[d].pc # "idle"
          /\ conns' = [conns EXCEPT ![c] =
                          [IdleConn EXCEPT !.pc = "spawned",
                                           !.tunnel_key = Some(local),
                                           !.rx = listener[local]]]
    /\ UNCHANGED <<tasks, DEFAULT_TUNNEL_OPTIONS, tunnels, close_channel, run_tunnel_task, listener, probers,
                   lim, overflow_checks, selected, copy, ret>>

\* run_tunnel, the close_channel.changed() branch: break; the handler and
\* its listener are dropped.
RunTunnelExit ==
    /\ \E inst \in DOMAIN run_tunnel_task :
          /\ run_tunnel_task[inst] = "running"
          /\ changed(inst)
          /\ run_tunnel_task' = [run_tunnel_task EXCEPT ![inst] = "done"]
          /\ listener' = [l \in DOMAIN listener |->
                             IF listener[l] = Some(inst) THEN None ELSE listener[l]]
    /\ UNCHANGED <<tasks, DEFAULT_TUNNEL_OPTIONS, tunnels, close_channel, conns, probers, lim, overflow_checks,
                   selected, copy, ret>>

\* ------------------------------------------------------- process_socket
\* One step per call into State, together with the await or the local
\* statements that lead to it; pc names the next call.  A task that has
\* ended keeps only how it ended: "returned_ok", "returned_err" (the ? of
\* remote_retries) or "panicked:<the decrement>".
Ended(c, how) == [IdleConn EXCEPT !.pc = how]
Panicked(c, site) == Ended(c, "panicked:" \o site)

\* state.client_connected(&tunnel_key, &local_client)
ClientConnected ==
    /\ \E c \in Clients :
          LET local == Unwrap(conns[c].tunnel_key)
          IN /\ conns[c].pc = "spawned"
             /\ tunnels' = State_client_connected(tunnels, local)
             /\ conns' = [conns EXCEPT
                            ![c].pc = "retries",
                            ![c].counted = IF local \in DOMAIN tunnels
                                           THEN Some(tunnels[local].inst)
                                           ELSE None]
    /\ UNCHANGED <<tasks, DEFAULT_TUNNEL_OPTIONS, close_channel, run_tunnel_task, listener, probers,
                   lim, overflow_checks, selected, copy, ret>>

\* A faulty loop test, while retries >= 0; C12's formula must tell it from
\* while_retries.
while_retries_ge(retries) == retries >= 0

\* while retries > 0
while_retries(retries) == retries > 0

\* A faulty loop end that leaves retries as it is; C11's formula must tell
\* it from retries_minus_1.
retries_kept(retries) == retries

\* retries -= 1
retries_minus_1(retries) == retries - 1

\* let mut retries = state.remote_retries(&tunnel_key)?; and the first test
\* of while retries > 0
RemoteRetries ==
    /\ \E c \in Clients :
          /\ conns[c].pc = "retries"
          /\ LET r == State_remote_retries(tunnels, Unwrap(conns[c].tunnel_key))
             IN conns' = [conns EXCEPT ![c] =
                            IF ~r.ok THEN Ended(c, "returned_err")
                            ELSE IF while_retries(r.retries)
                            THEN [@ EXCEPT !.retries = r.retries,
                                           !.configured = Some(r.retries),
                                           !.pc = "select"]
                            ELSE [@ EXCEPT !.retries = r.retries,
                                           !.configured = Some(r.retries),
                                           !.pc = "disconnect"]]
    /\ UNCHANGED <<tasks, DEFAULT_TUNNEL_OPTIONS, tunnels, close_channel, run_tunnel_task, listener, probers,
                   lim, overflow_checks, selected, copy, ret>>

\* match state.select_remote(&tunnel_key): Ok starts the connect, Err sets
\* last_remote = None and breaks.
SelectRemote ==
    /\ \E c \in Clients :
          /\ conns[c].pc = "select"
          /\ \E o \in State_select_remote(tunnels, Unwrap(conns[c].tunnel_key)) :
                /\ tunnels' = o.t
                /\ conns' = [conns EXCEPT ![c] =
                               IF o.ok
                               THEN [@ EXCEPT !.remote = o.key, !.etd = o.options,
                                              !.timing = o.timing,
                                              !.attempts = @ + 1,
                                              !.pc = "connecting"]
                               ELSE [@ EXCEPT !.last_remote = None,
                                              !.pc = "disconnect"]]
    /\ UNCHANGED <<tasks, DEFAULT_TUNNEL_OPTIONS, close_channel, run_tunnel_task, listener, probers,
                   lim, overflow_checks, selected, copy, ret>>

\* timeout(connect_remote) gave Ok(Ok(stream)): remote_connected,
\* last_remote = Some(remote), copy_bidirectional starts.
ConnectOk ==
    /\ \E c \in Clients :
          /\ conns[c].pc = "connecting"
          /\ LET r == State_remote_connected(tunnels, Unwrap(conns[c].tunnel_key),
                                             Unwrap(conns[c].remote), overflow_checks)
             IN /\ tunnels' = r.t
                /\ conns' = [conns EXCEPT ![c] =
                               IF r.panic # "" THEN Panicked(c, r.panic)
                               ELSE [@ EXCEPT !.last_remote = conns[c].remote,
                                              !.connected_to = conns[c].remote,
                                              !.n_remote_connected = @ + 1,
                                              !.etd = None, !.timing = None,
                                              !.pc = "copying"]]
    /\ UNCHANGED <<tasks, DEFAULT_TUNNEL_OPTIONS, close_channel, run_tunnel_task, listener, probers,
                   lim, overflow_checks, selected, copy, ret>>

\* timeout(connect_remote) gave Ok(Err(e)) or Err(_): remote_error,
\* retries -= 1 and the next test of while retries > 0.
ConnectErr ==
    /\ \E c \in Clients :
          /\ conns[c].pc = "connecting"
          /\ LET local == Unwrap(conns[c].tunnel_key)
                 remote == Unwrap(conns[c].remote)
                 r == State_remote_error(tunnels, local, remote, Unwrap(conns[c].etd),
                                         Len(probers) + 1, overflow_checks)
             IN /\ r.spawned => Len(probers) < lim.probers
                /\ tunnels' = r.t
                /\ probers' = IF r.spawned
                              THEN check_dead(probers, tunnels, local, remote,
                                              remote_error_timeout(Unwrap(conns[c].timing)),
                                              remote_error_after(Unwrap(conns[c].timing)))
                              ELSE probers
                /\ conns' = [conns EXCEPT ![c] =
                               IF r.panic # "" THEN Panicked(c, r.panic)
                               ELSE [@ EXCEPT !.retries = retries_minus_1(@),
                                              !.n_remote_error = @ + 1,
                                              !.remote = None, !.etd = None,
                                              !.timing = None,
                                              !.pc = IF while_retries(
                                                          retries_minus_1(conns[c].retries))
                                                     THEN "select" ELSE "disconnect"]]
    /\ UNCHANGED <<tasks, DEFAULT_TUNNEL_OPTIONS, close_channel, run_tunnel_task, listener, lim, overflow_checks,
                   selected, copy, ret>>

\* The end of process_socket: client_disconnected(&tunnel_key, last_remote).
disconnect(c) ==
    LET r == State_client_disconnected(tunnels, Unwrap(conns[c].tunnel_key),
                                       conns[c].last_remote, overflow_checks)
    IN /\ tunnels' = r.t
       /\ conns' = [conns EXCEPT ![c] =
                      IF r.panic # "" THEN Panicked(c, r.panic)
                      ELSE Ended(c, "returned_ok")]

\* copy_bidirectional(...).await returns, Ok or Err: break, and the
\* client_disconnected that follows with no await in between.
CopyReturns ==
    /\ \E c \in Clients : conns[c].pc = "copying" /\ disconnect(c)
    /\ UNCHANGED <<tasks, DEFAULT_TUNNEL_OPTIONS, close_channel, run_tunnel_task, listener, probers,
                   lim, overflow_checks, selected, copy, ret>>

\* client_disconnected after the loop ended with no remote connected.
ClientDisconnected ==
    /\ \E c \in Clients : conns[c].pc = "disconnect" /\ disconnect(c)
    /\ UNCHANGED <<tasks, DEFAULT_TUNNEL_OPTIONS, close_channel, run_tunnel_task, listener, probers,
                   lim, overflow_checks, selected, copy, ret>>

\* ------------------------------------------------------------- the prober
\* The prober task after its sleep, its connect succeeding.
ProbeConnected ==
    /\ \E p \in DOMAIN probers :
          /\ probers[p].st = "scheduled"
          /\ tunnels' = check_dead_connected(tunnels, probers[p].local,
                                             probers[p].remote)
          /\ probers' = [probers EXCEPT ![p].st = "finished",
                                        ![p].connected = TRUE]
    /\ UNCHANGED <<tasks, DEFAULT_TUNNEL_OPTIONS, close_channel, run_tunnel_task, listener, conns,
                   lim, overflow_checks, selected, copy, ret>>

\* The prober task after its sleep, its connect failing or timing out.
ProbeFailed ==
    /\ \E p \in DOMAIN probers :
          /\ probers[p].st = "scheduled"
          /\ LET local == probers[p].local
                 remote == probers[p].remote
                 rearm == check_dead_rearms(tunnels, local, remote)
                 done == [probers EXCEPT ![p].st = "finished"]
             IN /\ rearm => Len(probers) < lim.probers
                /\ tunnels' = check_dead_failed(tunnels, local, remote,
                                                Len(probers) + 1)
                /\ probers' = IF rearm
                              THEN check_dead(done, tunnels, local, remote,
                                              probers[p].timeout, probers[p].after)
                              ELSE done
    /\ UNCHANGED <<tasks, DEFAULT_TUNNEL_OPTIONS, close_channel, run_tunnel_task, listener, conns,
                   lim, overflow_checks, selected, copy, ret>>

\* ------------------------------------------------------- the control surface
\* rpc add_remote: state.add_remote_to_tunnel(&local, remote)
AddRemote ==
    /\ lim.admin
    /\ \E local \in Locals, remote \in RemoteKeys :
          LET r == State_add_remote_to_tunnel(tunnels, local, remote)
          IN r.res = "Ok" /\ tunnels' = r.t
    /\ UNCHANGED <<tasks, DEFAULT_TUNNEL_OPTIONS, close_channel, run_tunnel_task, listener, conns, probers,
                   lim, overflow_checks, selected, copy, ret>>

\* rpc remove_remote: state.remove_remote_from_tunnel(&local, &remote)
RemoveRemote ==
    /\ lim.admin
    /\ \E local \in Locals, remote \in RemoteKeys :
          LET r == State_remove_remote_from_tunnel(tunnels, local, remote)
          IN r.res = "Ok" /\ tunnels' = r.t
    /\ UNCHANGED <<tasks, DEFAULT_TUNNEL_OPTIONS, close_channel, run_tunnel_task, listener, conns, probers,
                   lim, overflow_checks, selected, copy, ret>>

\* ------------------------------------------------------------------- Spec
Next ==
    \/ StartTunnel
    \/ StopTunnel
    \/ Accept
    \/ RunTunnelExit
    \/ ClientConnected
    \/ RemoteRetries
    \/ SelectRemote
    \/ ConnectOk
    \/ ConnectErr
    \/ CopyReturns
    \/ ClientDisconnected
    \/ ProbeConnected
    \/ ProbeFailed
    \/ AddRemote
    \/ RemoveRemote

Spec == Init /\ [][Next]_vars

\* The accept loop is a spawned task: once its close_channel.changed() is
\* ready it stays ready, the runtime polls the task and select! takes the
\* branch (it picks among the ready branches at random, so it cannot lose to
\* accept for ever).
FairSpec == Spec /\ WF_vars(RunTunnelExit)

\* A step of the process_socket task of client c.
process_socket(c) ==
    /\ \/ ClientConnected
       \/ RemoteRetries
       \/ SelectRemote
       \/ ConnectOk
       \/ ConnectErr
       \/ CopyReturns
       \/ ClientDisconnected
    /\ conns'[c] # conns[c]

\* Every process_socket task is a spawned task the runtime keeps polling:
\* its calls into State do not block for ever, its connect is under a
\* timeout, and the copy is taken to return (the peers close, or the close
\* signal fires).
FairSpecConn == Spec /\ \A c \in Clients : WF_vars(process_socket(c))

\* A prober is a spawned task whose sleep and connect (under a timeout) end;
\* the remotes are taken to accept connections from some point on, so a
\* prober that is scheduled does get to connect.
FairSpecProbe == Spec /\ WF_vars(ProbeConnected)

\* ------------------------------------------- SpecReg: the control surface
\* The rpc methods open_tunnel, close_tunnel, add_remote and remove_remote
\* called in any order on two locals, each call with its Result recorded in
\* ret, refused calls included; one client at a time connects through "L"
\* and the probers run as in Spec.  ret.n numbers the calls, so a call is
\* the step that changes ret.

\* Number of control calls per behaviour.
MaxCalls == 4
\* Number of tunnel instances (successful open_tunnel calls) per behaviour.
MaxRegGens == 3

RegLocals == {"L", "M"}
RegRemoteKeys == {"A", "B", "C"}
RegRemoteLists == {<<"A", "B">>}
RegOptions ==
    [lb_strategy : {"Random"},
     remote_connect_retries : {1},
     errors_till_dead : {1},
     connect_timeout : {3},
     dead_retry : {5, 10}]

RegProfile ==
    [clients |-> 1, gens |-> MaxRegGens, probers |-> MaxProbers, admin |-> TRUE]

\* The next control call and its Result.
Ret(op, local, remote, res) ==
    [op |-> op, local |-> local, remote |-> remote, res |-> res, n |-> ret.n + 1]

RegInit ==
    /\ tunnels = [l \in {} |-> 0]
    /\ close_channel = <<>>
    /\ run_tunnel_task = <<>>
    /\ listener = [l \in RegLocals |-> None]
    /\ conns = [c \in Clients |-> IdleConn]
    /\ probers = <<>>
    /\ lim = RegProfile
    /\ overflow_checks \in BOOLEAN
    /\ selected = <<>>
    /\ copy = NoCopy
    /\ ret = NoRet
    /\ tasks = <<>>
    /\ DEFAULT_TUNNEL_OPTIONS = DefaultTunnelOptions

\* rpc open_tunnel: start_tunnel(tunnel, state)
open_tunnel ==
    /\ ret.n < MaxCalls
    /\ \E local \in RegLocals, remote \in RegRemoteLists, options \in RegOptions :
        LET res == start_tunnel_ret(local)
        IN /\ ret' = Ret("open_tunnel", local, None, res)
           /\ IF res = "Ok"
              THEN /\ start_tunnel(local, remote, options)
                   /\ UNCHANGED <<tasks, DEFAULT_TUNNEL_OPTIONS, conns, probers, lim, overflow_checks,
                                  selected, copy>>
              ELSE UNCHANGED <<tasks, DEFAULT_TUNNEL_OPTIONS, tunnels, close_channel, run_tunnel_task, listener,
                               conns, probers, lim, overflow_checks, selected, copy>>

\* rpc close_tunnel: stop_tunnel(&local, state)
close_tunnel ==
    /\ ret.n < MaxCalls
    /\ \E local \in RegLocals :
        LET res == stop_tunnel_ret(local)
        IN /\ ret' = Ret("close_tunnel", local, None, res)
           /\ IF res = "Ok"
              THEN /\ stop_tunnel(local)
                   /\ UNCHANGED <<tasks, DEFAULT_TUNNEL_OPTIONS, run_tunnel_task, listener, conns, lim,
                                  overflow_checks, selected, copy>>
              ELSE UNCHANGED <<tasks, DEFAULT_TUNNEL_OPTIONS, tunnels, close_channel, run_tunnel_task, listener,
                               conns, probers, lim, overflow_checks, selected, copy>>

\* rpc add_remote: state.add_remote_to_tunnel(&local, remote)
add_remote ==
    /\ ret.n < MaxCalls
    /\ \E local \in RegLocals, remote \in RegRemoteKeys :
          LET r == State_add_remote_to_tunnel(tunnels, local, remote)
          IN /\ ret' = Ret("add_remote", local, Some(remote), r.res)
             /\ tunnels' = r.t
    /\ UNCHANGED <<tasks, DEFAULT_TUNNEL_OPTIONS, close_channel, run_tunnel_task, listener, conns, probers,
                   lim, overflow_checks, selected, copy>>

\* rpc remove_remote: state.remove_remote_from_tunnel(&local, &remote)
remove_remote ==
    /\ ret.n < MaxCalls
    /\ \E local \in RegLocals, remote \in RegRemoteKeys :
          LET r == State_remove_remote_from_tunnel(tunnels, local, remote)
          IN /\ ret' = Ret("remove_remote", local, Some(remote), r.res)
             /\ tunnels' = r.t
    /\ UNCHANGED <<tasks, DEFAULT_TUNNEL_OPTIONS, close_channel, run_tunnel_task, listener, conns, probers,
                   lim, overflow_checks, selected, copy>>

RegNext ==
    \/ open_tunnel
    \/ close_tunnel
    \/ add_remote
    \/ remove_remote
    \/ Accept
    \/ RunTunnelExit
    \/ ClientConnected
    \/ RemoteRetries
    \/ SelectRemote
    \/ ConnectOk
    \/ ConnectErr
    \/ CopyReturns
    \/ ClientDisconnected
    \/ ProbeConnected
    \/ ProbeFailed

SpecReg == RegInit /\ [][RegNext]_vars

\* ------------------------------------------------ SpecLB: the strategies
\* select_remote called again and again on one tunnel whose live map does
\* not change.  The tunnel starts as the program can have left it: fresh, or
\* with loads on its remotes and a last_selected_index that may be stale
\* (left from a larger live map).

\* Largest number of live remotes of the tunnel.
MaxRemotes == 3
\* Largest streams_open a remote starts with.
MaxLoad == 3
\* Number of select_remote calls in one behaviour.
MaxSelects == 4

RemoteNames == <<"A", "B", "C", "D", "E", "F">>

\* The streams_open values a remote starts with; a build that wraps can
\* have left usize::MAX (a decrement at 0).
OpenValues(oc) == (0..MaxLoad) \cup (IF oc THEN {} ELSE {USIZE_MAX})

\* A TunnelInfo with remotes RemoteNames[1..n], opens[i] streams open on the
\* i-th, and the given last_selected_index.
LBTunnel(n, strategy, opens, last) ==
    LET ti == TunnelInfo_new(1, SubSeq(RemoteNames, 1, n),
                             [lb_strategy |-> strategy,
                              remote_connect_retries |-> MaxRetries,
                              errors_till_dead |-> 1,
                              connect_timeout |-> 10,
                              dead_retry |-> 10])
    IN [ti EXCEPT !.last_selected_index = last,
                  !.remotes = [i \in 1..n |->
                                 [k |-> ti.remotes[i].k,
                                  v |-> [ti.remotes[i].v EXCEPT
                                           !.streams_open = opens[i]]]]]

LBInit ==
    /\ overflow_checks \in BOOLEAN
    /\ \E n \in 2..MaxRemotes, strategy \in Strategies :
          \/ tunnels = [l \in Locals |->
                          LBTunnel(n, strategy, [i \in 1..n |-> 0], None)]
          \/ \E opens \in [1..n -> OpenValues(overflow_checks)],
                last \in 0..MaxRemotes :
                tunnels = [l \in Locals |-> LBTunnel(n, strategy, opens, Some(last))]
    /\ selected = <<>>
    /\ close_channel = <<FALSE>>
    /\ run_tunnel_task = <<"running">>
    /\ listener = [l \in Locals |-> Some(1)]
    /\ conns = [c \in Clients |-> IdleConn]
    /\ probers = <<>>
    /\ lim = [clients |-> 0, gens |-> 1, probers |-> 0, admin |-> FALSE]
    /\ copy = NoCopy
    /\ ret = NoRet
    /\ tasks = <<>>
    /\ DEFAULT_TUNNEL_OPTIONS = DefaultTunnelOptions

\* One state.select_remote(&tunnel_key) call; selected records its result,
\* the index it left in last_selected_index, and whether the tunnel had
\* selected nothing before.
LBSelect ==
    /\ Len(selected) < MaxSelects
    /\ \E o \in State_select_remote(tunnels, "L") :
          /\ tunnels' = o.t
          /\ selected' = Append(selected,
                                [ok |-> o.ok, key |-> o.key,
                                 idx |-> o.t["L"].last_selected_index,
                                 first |-> tunnels["L"].last_selected_index = None])
    /\ UNCHANGED <<tasks, DEFAULT_TUNNEL_OPTIONS, close_channel, run_tunnel_task, listener, conns, probers,
                   lim, overflow_checks, copy, ret>>

LBNext == LBSelect

SpecLB == LBInit /\ [][LBNext]_vars

\* ------------------------------------------- SpecCopy: the copy engine
\* One connection's copy_bidirectional future (src/aio.rs), polled by the
\* runtime.  A step is one poll of the future; what the two streams answer
\* to each poll_read, poll_write, poll_flush and poll_shutdown is the
\* environment's choice.  update_progress is not followed.

\* The length of the copy buffer (state.copy_buffer_size()).
BufSize == 2
\* Number of bytes a reader delivers before its end of stream.
MaxBytes == 2

\* The bytes a reader delivers, in order: byte k of the stream is k.
Stream == [k \in 1..MaxBytes |-> k]

\* CopyBuffer::new.  buf is the boxed slice, BufSize zeros.  Besides the
\* fields of the code it carries history fields the code does not hold:
\* nread (the bytes taken from the reader so far), written (the bytes the
\* writer accepted, in order), progress (the values passed to
\* update_progress, in order), topped_up (a read on a pending write added
\* bytes to the buffer) and yielded (how poll_copy last suspended).
CopyBuffer_new ==
    [read_done |-> FALSE, need_flush |-> FALSE, pos |-> 0, cap |-> 0, amt |-> 0,
     buf |-> [i \in 1..BufSize |-> 0],
     nread |-> 0, written |-> <<>>, progress |-> <<>>, topped_up |-> FALSE,
     yielded |-> ""]

\* The smaller of two numbers.
Min(a, b) == IF a < b THEN a ELSE b

\* A faulty poll_fill_buf that leaves out set_filled(cap): the bytes read go
\* to the start of the buffer; C24's formula must tell it from poll_fill_buf.
poll_fill_buf_unfilled(buf) ==
    {[res |-> "Pending", buf |-> buf], [res |-> "Err", buf |-> buf]}
      \cup {[res |-> "Ok",
              buf |-> [buf EXCEPT !.read_done = (n = 0),
                                  !.cap = buf.cap + n,
                                  !.buf = [i \in 1..BufSize |->
                                             IF i <= n
                                             THEN Stream[buf.nread + i]
                                             ELSE buf.buf[i]],
                                  !.nread = @ + n]]
             : n \in 0..Min(BufSize - buf.cap, MaxBytes - buf.nread)}

\* CopyBuffer::poll_fill_buf: the outcomes [res, buf] of reader.poll_read
\* into the buffer filled up to cap: Pending, Err, or Ok with n more bytes
\* (n = 0 at the end of the stream).
poll_fill_buf(buf) ==
    {[res |-> "Pending", buf |-> buf], [res |-> "Err", buf |-> buf]}
      \cup {[res |-> "Ok",
              buf |-> [buf EXCEPT !.read_done = (buf.cap = buf.cap + n),
                                  !.cap = buf.cap + n,
                                  !.buf = [i \in 1..BufSize |->
                                             IF i > buf.cap /\ i <= buf.cap + n
                                             THEN Stream[buf.nread + i - buf.cap]
                                             ELSE buf.buf[i]],
                                  !.nread = @ + n]]
             : n \in 0..Min(BufSize - buf.cap, MaxBytes - buf.nread)}

\* CopyBuffer::poll_write_buf: the outcomes [res, n, buf] of
\* writer.poll_write(&buf[pos..cap]): Ok(n), Err, or Pending, on which the
\* buffer is topped up if it has room and the reader is not done.
poll_write_buf(buf) ==
    {[res |-> "Ok", n |-> i,
      buf |-> [buf EXCEPT !.written =
                              @ \o SubSeq(buf.buf, buf.pos + 1, buf.pos + i)]]
       : i \in 0..(buf.cap - buf.pos)}
      \cup {[res |-> "Err", n |-> 0, buf |-> buf]}
      \cup (IF ~buf.read_done /\ buf.cap < BufSize
            THEN {[res |-> IF f.res = "Err" THEN "Err" ELSE "Pending",
                   n |-> 0,
                   buf |-> [f.buf EXCEPT !.topped_up = @ \/ f.buf.cap > buf.cap]]
                  : f \in poll_fill_buf(buf)}
            ELSE {[res |-> "Pending", n |-> 0, buf |-> buf]})

RECURSIVE write_loop(_)
\* poll_copy's while self.pos < self.cap loop: the outcomes [res, at, buf],
\* res "Written" when the buffer is written out.
write_loop(buf) ==
    IF buf.pos >= buf.cap THEN {[res |-> "Written", at |-> "", buf |-> buf]}
    ELSE UNION {
           CASE w.res = "Pending" ->
                  {[res |-> "Pending", at |-> "",
                    buf |-> [w.buf EXCEPT !.yielded = "write"]]}
             [] w.res = "Err" -> {[res |-> "Err", at |-> "poll_write_buf", buf |-> w.buf]}
             [] w.n = 0 -> {[res |-> "Err", at |-> "WriteZero", buf |-> w.buf]}
             [] OTHER -> write_loop([w.buf EXCEPT !.pos = @ + w.n,
                                                  !.progress = Append(@, w.n),
                                                  !.amt = @ + w.n,
                                                  !.need_flush = TRUE])
           : w \in poll_write_buf(buf)}

\* The outcomes of writer.poll_flush.
poll_flush == {"Ok", "Err", "Pending"}

\* A faulty first block that suspends on a blocked read without flushing
\* what was written; C30's formula must tell it from read_block.
read_block_no_flush(buf) ==
    IF buf.pos = buf.cap /\ ~buf.read_done
    THEN LET b0 == [buf EXCEPT !.pos = 0, !.cap = 0]
         IN UNION {
              CASE f.res = "Ok" -> {[res |-> "Go", at |-> "", buf |-> f.buf]}
                [] f.res = "Err" -> {[res |-> "Err", at |-> "poll_fill_buf", buf |-> f.buf]}
                [] OTHER -> {[res |-> "Pending", at |-> "",
                              buf |-> [b0 EXCEPT !.yielded = "read"]]}
              : f \in poll_fill_buf(b0)}
    ELSE {[res |-> "Go", at |-> "", buf |-> buf]}

\* A faulty first block that resets the indices and reads whenever EOF has
\* not been seen, with bytes still unwritten; C39's formula must tell it from
\* read_block.
read_block_resets_unwritten(buf) ==
    IF ~buf.read_done
    THEN LET b0 == [buf EXCEPT !.pos = 0, !.cap = 0]
         IN UNION {
              CASE f.res = "Ok" -> {[res |-> "Go", at |-> "", buf |-> f.buf]}
                [] f.res = "Err" -> {[res |-> "Err", at |-> "poll_fill_buf", buf |-> f.buf]}
                [] OTHER ->
                     IF b0.need_flush
                     THEN {CASE fl = "Ok" ->
                                  [res |-> "Pending", at |-> "",
                                   buf |-> [b0 EXCEPT !.need_flush = FALSE,
                                                      !.yielded = "read"]]
                             [] fl = "Err" ->
                                  [res |-> "Err", at |-> "poll_flush", buf |-> b0]
                             [] OTHER ->
                                  [res |-> "Pending", at |-> "",
                                   buf |-> [b0 EXCEPT !.yielded = "flush"]]
                           : fl \in poll_flush}
                     ELSE {[res |-> "Pending", at |-> "",
                            buf |-> [b0 EXCEPT !.yielded = "read"]]}
              : f \in poll_fill_buf(b0)}
    ELSE {[res |-> "Go", at |-> "", buf |-> buf]}

\* poll_copy's first block: with an empty buffer and the reader not done,
\* read; on Pending flush what was written.  res "Go" goes on to the writes.
read_block(buf) ==
    IF buf.pos = buf.cap /\ ~buf.read_done
    THEN LET b0 == [buf EXCEPT !.pos = 0, !.cap = 0]
         IN UNION {
              CASE f.res = "Ok" -> {[res |-> "Go", at |-> "", buf |-> f.buf]}
                [] f.res = "Err" -> {[res |-> "Err", at |-> "poll_fill_buf", buf |-> f.buf]}
                [] OTHER ->
                     IF b0.need_flush
                     THEN {CASE fl = "Ok" ->
                                  [res |-> "Pending", at |-> "",
                                   buf |-> [b0 EXCEPT !.need_flush = FALSE,
                                                      !.yielded = "read"]]
                             [] fl = "Err" ->
                                  [res |-> "Err", at |-> "poll_flush", buf |-> b0]
                             [] OTHER ->
                                  [res |-> "Pending", at |-> "",
                                   buf |-> [b0 EXCEPT !.yielded = "flush"]]
                           : fl \in poll_flush}
                     ELSE {[res |-> "Pending", at |-> "",
                            buf |-> [b0 EXCEPT !.yielded = "read"]]}
              : f \in poll_fill_buf(b0)}
    ELSE {[res |-> "Go", at |-> "", buf |-> buf]}

\* A faulty poll_copy (tokio's own, with no finish future to poll); C5's
\* formula must tell it from poll_copy.
RECURSIVE poll_copy_no_finish(_, _)
poll_copy_no_finish(buf, finish) ==
    UNION {
      IF rd.res # "Go" THEN {rd}
      ELSE UNION {
             IF w.res # "Written" THEN {w}
             ELSE IF w.buf.pos = w.buf.cap /\ w.buf.read_done
             THEN {CASE fl = "Ok" -> [res |-> "Ready", at |-> "", buf |-> w.buf]
                     [] fl = "Err" -> [res |-> "Err", at |-> "poll_flush", buf |-> w.buf]
                     [] OTHER -> [res |-> "Pending", at |-> "",
                                  buf |-> [w.buf EXCEPT !.yielded = "flush"]]
                   : fl \in poll_flush}
             ELSE poll_copy_no_finish(w.buf, finish)
             : w \in write_loop(rd.buf)}
      : rd \in read_block(buf)}

\* CopyBuffer::poll_copy, one call: the outcomes [res, at, buf], res "Ready"
\* for Poll::Ready(Ok(self.amt)).  finish is whether the finish future (the
\* close receiver's changed()) is ready; poll_finish is polled first in
\* every turn of the loop.
RECURSIVE poll_copy(_, _)
poll_copy(buf, finish) ==
    IF finish THEN {[res |-> "Ready", at |-> "", buf |-> buf]}
    ELSE UNION {
           IF rd.res # "Go" THEN {rd}
           ELSE UNION {
                  IF w.res # "Written" THEN {w}
                  ELSE IF w.buf.pos = w.buf.cap /\ w.buf.read_done
                  THEN {CASE fl = "Ok" -> [res |-> "Ready", at |-> "", buf |-> w.buf]
                          [] fl = "Err" -> [res |-> "Err", at |-> "poll_flush", buf |-> w.buf]
                          [] OTHER -> [res |-> "Pending", at |-> "",
                                       buf |-> [w.buf EXCEPT !.yielded = "flush"]]
                        : fl \in poll_flush}
                  ELSE poll_copy(w.buf, finish)
                  : w \in write_loop(rd.buf)}
           : rd \in read_block(buf)}

\* The outcomes of w.poll_shutdown.
poll_shutdown == {"Ok", "Err", "Pending"}

\* TransferState::Running(CopyBuffer::new(..)).  The model keeps buf after
\* Running (the code drops it): nothing reads it but the properties.
TransferState_new == [state |-> "Running", buf |-> CopyBuffer_new, count |-> 0]

RECURSIVE transfer_one_direction(_, _)
\* transfer_one_direction, one call: the outcomes [res, at, st], res
\* "Ready" for Poll::Ready(Ok(count)).
transfer_one_direction(st, finish) ==
    CASE st.state = "Running" ->
           UNION {
             CASE c.res = "Ready" ->
                    transfer_one_direction(
                        [state |-> "ShuttingDown", buf |-> c.buf, count |-> c.buf.amt],
                        finish)
               [] c.res = "Err" ->
                    {[res |-> "Err", at |-> c.at, st |-> [st EXCEPT !.buf = c.buf]]}
               [] OTHER ->
                    {[res |-> "Pending", at |-> "", st |-> [st EXCEPT !.buf = c.buf]]}
             : c \in poll_copy([st.buf EXCEPT !.yielded = ""], finish)}
      [] st.state = "ShuttingDown" ->
           UNION {
             CASE sh = "Ok" ->
                    transfer_one_direction([st EXCEPT !.state = "Done"], finish)
               [] sh = "Err" -> {[res |-> "Err", at |-> "poll_shutdown", st |-> st]}
               [] OTHER -> {[res |-> "Pending", at |-> "", st |-> st]}
             : sh \in poll_shutdown}
      [] OTHER -> {[res |-> "Ready", at |-> "", st |-> st]}

\* A faulty poll that returns as soon as a_to_b is ready, whatever b_to_a
\* returned; C29's formula must tell it from CopyBidirectional_poll.
CopyBidirectional_poll_first(cp) ==
    UNION {
      IF a.res = "Err"
      THEN {[cp EXCEPT !.a_to_b = a.st,
                       !.result = [res |-> "Err", at |-> a.at]]}
      ELSE {IF b.res = "Err"
            THEN [cp EXCEPT !.a_to_b = a.st, !.b_to_a = b.st,
                            !.result = [res |-> "Err", at |-> b.at]]
            ELSE IF a.res = "Ready"
            THEN [cp EXCEPT !.a_to_b = a.st, !.b_to_a = b.st,
                            !.result = [res |-> "Ok",
                                        counts |-> <<a.st.count, b.st.count>>]]
            ELSE [cp EXCEPT !.a_to_b = a.st, !.b_to_a = b.st]
            : b \in transfer_one_direction(cp.b_to_a, cp.finish)}
      : a \in transfer_one_direction(cp.a_to_b, cp.finish)}

\* CopyBidirectional::poll: the futures it may leave.  An Err of a_to_b
\* returns before b_to_a is polled.
CopyBidirectional_poll(cp) ==
    UNION {
      IF a.res = "Err"
      THEN {[cp EXCEPT !.a_to_b = a.st,
                       !.result = [res |-> "Err", at |-> a.at]]}
      ELSE {IF b.res = "Err"
            THEN [cp EXCEPT !.a_to_b = a.st, !.b_to_a = b.st,
                            !.result = [res |-> "Err", at |-> b.at]]
            ELSE IF a.res = "Ready" /\ b.res = "Ready"
            THEN [cp EXCEPT !.a_to_b = a.st, !.b_to_a = b.st,
                            !.result = [res |-> "Ok",
                                        counts |-> <<a.st.count, b.st.count>>]]
            ELSE [cp EXCEPT !.a_to_b = a.st, !.b_to_a = b.st]
            : b \in transfer_one_direction(cp.b_to_a, cp.finish)}
      : a \in transfer_one_direction(cp.a_to_b, cp.finish)}

\* copy_bidirectional: both directions Running.  finish is whether the
\* close signal has fired (each direction's changed() future is ready from
\* then on); interrupted records that it fired with the copy unfinished.
copy_bidirectional(finish) ==
    [a_to_b |-> TransferState_new, b_to_a |-> TransferState_new,
     finish |-> finish, interrupted |-> finish,
     result |-> [res |-> "Pending"]]

\* The copy starts before or after stop_tunnel sent the close signal: the
\* receiver process_socket was given has seen only the initial value.
CopyInit ==
    /\ copy \in {copy_bidirectional(finish) : finish \in BOOLEAN}
    /\ tunnels = [l \in {} |-> 0]
    /\ close_channel = <<>>
    /\ run_tunnel_task = <<>>
    /\ listener = [l \in Locals |-> None]
    /\ conns = [c \in Clients |-> IdleConn]
    /\ probers = <<>>
    /\ lim = [clients |-> 0, gens |-> 0, probers |-> 0, admin |-> FALSE]
    /\ overflow_checks \in BOOLEAN
    /\ selected = <<>>
    /\ ret = NoRet
    /\ tasks = <<>>
    /\ DEFAULT_TUNNEL_OPTIONS = DefaultTunnelOptions

\* The runtime polls the future.
CopyPoll ==
    /\ copy.result.res = "Pending"
    /\ copy' \in CopyBidirectional_poll(copy)
    /\ UNCHANGED <<tasks, DEFAULT_TUNNEL_OPTIONS, tunnels, close_channel, run_tunnel_task, listener, conns,
                   probers, lim, overflow_checks, selected, ret>>

\* stop_tunnel's close_channel.send(true) reaches the receivers.
CopyCloseSignal ==
    /\ ~copy.finish
    /\ copy' = [copy EXCEPT !.finish = TRUE,
                            !.interrupted = (copy.result.res = "Pending")]
    /\ UNCHANGED <<tasks, DEFAULT_TUNNEL_OPTIONS, tunnels, close_channel, run_tunnel_task, listener, conns,
                   probers, lim, overflow_checks, selected, ret>>

CopyNext == CopyPoll \/ CopyCloseSignal

SpecCopy == CopyInit /\ [][CopyNext]_vars

\* Once the close signal fired, the finish futures wake the task and the
\* runtime polls it; a poll_shutdown that is Pending becomes ready.
FairSpecCopy == SpecCopy /\ WF_vars(copy.finish /\ CopyPoll)

\* ------------------------------------------- SpecParse: SocketSpec from text
\* A text is a sequence of characters (strings of length one).  The texts
\* tried are the concatenations of at most MaxPieces pieces.
MaxPieces == 5

Pieces ==
    {<<"a">>, <<"g">>, <<"0">>, <<"1">>, <<"2", "5", "6">>,
     <<":", ":", "1">>, <<".">>, <<":">>, <<"[">>, <<"]">>,
     <<"1", ".", "2", ".", "3", ".", "4">>, <<" ">>}

DigitChars == {"0", "1", "2", "3", "4", "5", "6", "7", "8", "9"}
\* char::is_ascii_hexdigit, on the characters of the pieces
HexChars == DigitChars \cup {"a"}
\* char::is_ascii_alphabetic, on the characters of the pieces
AlphaChars == {"a", "g"}

DigitVal(c) ==
    CASE c = "0" -> 0 [] c = "1" -> 1 [] c = "2" -> 2 [] c = "3" -> 3
      [] c = "4" -> 4 [] c = "5" -> 5 [] c = "6" -> 6 [] c = "7" -> 7
      [] c = "8" -> 8 [] OTHER -> 9

DigitChar(d) ==
    CASE d = 0 -> "0" [] d = 1 -> "1" [] d = 2 -> "2" [] d = 3 -> "3"
      [] d = 4 -> "4" [] d = 5 -> "5" [] d = 6 -> "6" [] d = 7 -> "7"
      [] d = 8 -> "8" [] OTHER -> "9"

RECURSIVE PrefixLen(_, _, _)
\* The length of the longest prefix of i, of at most max characters, whose
\* characters are all in S (take_while, take_while_m_n).
PrefixLen(i, S, max) ==
    IF i = <<>> \/ max = 0 \/ Head(i) \notin S THEN 0
    ELSE 1 + PrefixLen(Tail(i), S, max - 1)

\* i without its first n characters.
Drop(i, n) == SubSeq(i, n + 1, Len(i))

RECURSIVE DecVal(_, _, _)
\* The number a string of digits spells, read onto acc digit by digit; the
\* reading stops at the first value over max (checked_mul, checked_add).
DecVal(acc, ds, max) ==
    IF ds = <<>> \/ acc > max THEN acc
    ELSE DecVal(acc * 10 + DigitVal(Head(ds)), Tail(ds), max)

\* nom's unsigned parsers (u8, u16): the leading digits, at least one; an
\* Err when the number overflows the type.  A parser gives the set of its
\* results [rest, out]: empty for Err, else one element.
unsigned(i, max) ==
    LET n == PrefixLen(i, DigitChars, Len(i))
        v == DecVal(0, SubSeq(i, 1, n), max)
    IN IF n = 0 \/ v > max THEN {}
       ELSE {[rest |-> Drop(i, n), out |-> v]}

\* port: nom::character::complete::u16
port(i) == unsigned(i, 65535)

\* tag / char: one given character.
char(c, i) ==
    IF i # <<>> /\ Head(i) = c THEN {[rest |-> Tail(i), out |-> c]} ELSE {}

is_other_hostname_char(c) == c \in {".", "-"}

\* host_name: letters first, then letters, digits, '.' and '-'; the last
\* character recognized is none of '.' and '-'.
host_name(i) ==
    LET n1 == PrefixLen(i, AlphaChars, Len(i))
        n2 == PrefixLen(Drop(i, n1), AlphaChars \cup DigitChars \cup {".", "-"},
                        Len(i))
        x == SubSeq(i, 1, n1 + n2)
    IN IF n1 = 0 \/ is_other_hostname_char(x[Len(x)]) THEN {}
       ELSE {[rest |-> Drop(i, n1 + n2), out |-> x]}

\* ipv6_segment: take_while_m_n(0, 4, is_ascii_hexdigit)
ipv6_segment(i) ==
    LET n == PrefixLen(i, HexChars, 4)
    IN {[rest |-> Drop(i, n), out |-> SubSeq(i, 1, n)]}

RECURSIVE separated_list1_more(_)
\* separated_list1(tag(":"), ipv6_segment) after an element: the input left
\* when no further separator is found.
separated_list1_more(i) ==
    IF char(":", i) = {} THEN i
    ELSE LET s == CHOOSE r \in char(":", i) : TRUE
             e == CHOOSE r \in ipv6_segment(s.rest) : TRUE
         IN separated_list1_more(e.rest)

\* ipv6: delimited(tag("["), recognize(separated_list1(..)), tag("]"))
ipv6(i) ==
    IF char("[", i) = {} THEN {}
    ELSE LET i1 == Tail(i)
             e == CHOOSE r \in ipv6_segment(i1) : TRUE
             i2 == separated_list1_more(e.rest)
         IN IF char("]", i2) = {} THEN {}
            ELSE {[rest |-> Tail(i2), out |-> SubSeq(i1, 1, Len(i1) - Len(i2))]}

RECURSIVE ipv4_rest(_, _)
\* The n (char('.'), u8) pairs of ipv4: the input left, as a set.
ipv4_rest(i, n) ==
    IF n = 0 THEN {i}
    ELSE IF char(".", i) = {} \/ unsigned(Tail(i), 255) = {} THEN {}
    ELSE ipv4_rest((CHOOSE r \in unsigned(Tail(i), 255) : TRUE).rest, n - 1)

\* ipv4: recognize(tuple((u8, '.', u8, '.', u8, '.', u8)))
ipv4(i) ==
    IF unsigned(i, 255) = {} THEN {}
    ELSE {[rest |-> r, out |-> SubSeq(i, 1, Len(i) - Len(r))]
            : r \in ipv4_rest((CHOOSE u \in unsigned(i, 255) : TRUE).rest, 3)}

\* The characters of "127.0.0.1".
Localhost == <<"1", "2", "7", ".", "0", ".", "0", ".", "1">>

\* A faulty socket_spec1 that gives a bare port the unspecified address;
\* C26's formula must tell it from socket_spec1.
socket_spec1_unspecified(i) ==
    {[rest |-> p.rest, out |-> [host |-> <<"0", ".", "0", ".", "0", ".", "0">>,
                                port |-> p.out]]
       : p \in port(i)}

\* socket_spec1: a bare port, host "127.0.0.1"
socket_spec1(i) ==
    {[rest |-> p.rest, out |-> [host |-> Localhost, port |-> p.out]]
       : p \in port(i)}

\* alt((host_name, ipv4, ipv6)): the first that succeeds
host_alt(i) ==
    IF host_name(i) # {} THEN host_name(i)
    ELSE IF ipv4(i) # {} THEN ipv4(i)
    ELSE ipv6(i)

\* socket_spec2: separated_pair(alt((host_name, ipv4, ipv6)), char(':'), port)
socket_spec2(i) ==
    UNION {UNION {{[rest |-> p.rest, out |-> [host |-> h.out, port |-> p.out]]
                     : p \in port(c.rest)}
                  : c \in char(":", h.rest)}
           : h \in host_alt(i)}

\* socket_spec: alt((socket_spec2, socket_spec1))
socket_spec(i) ==
    IF socket_spec2(i) # {} THEN socket_spec2(i) ELSE socket_spec1(i)

RECURSIVE trim_end(_)
\* str::trim_end
trim_end(i) ==
    IF i # <<>> /\ i[Len(i)] = " " THEN trim_end(SubSeq(i, 1, Len(i) - 1)) ELSE i

\* SocketSpec::from_str: Ok(spec) as {spec}, a SocketSpecParseError as {}.
from_str(i) == {r.out : r \in {q \in socket_spec(i) : trim_end(q.rest) = <<>>}}

RECURSIVE to_string(_)
\* The decimal digits of a u16.
to_string(n) ==
    IF n < 10 THEN <<DigitChar(n)>>
    ELSE to_string(n \div 10) \o <<DigitChar(n % 10)>>

\* The normalized text of a SocketSpec, which Display writes: host, ':' and
\* port, an IPv6 literal (a host that is neither a host name nor an IPv4
\* address) in brackets.
display(s) ==
    LET plain == \E r \in host_name(s.host) \cup ipv4(s.host) : r.rest = <<>>
    IN (IF plain THEN s.host ELSE <<"[">> \o s.host \o <<"]">>)
          \o <<":">> \o to_string(s.port)

RECURSIVE Texts(_)
\* The concatenations of at most n pieces.
Texts(n) ==
    IF n = 0 THEN {<<>>}
    ELSE LET T == Texts(n - 1) IN T \cup {t \o p : t \in T, p \in Pieces}

\* A text to parse; ret is the call made on it and what it returned.
ParseInit ==
    /\ tunnels = [l \in {} |-> 0]
    /\ close_channel = <<>>
    /\ run_tunnel_task = <<>>
    /\ listener = [l \in Locals |-> None]
    /\ conns = [c \in Clients |-> IdleConn]
    /\ probers = <<>>
    /\ lim = [clients |-> 0, gens |-> 0, probers |-> 0, admin |-> FALSE]
    /\ overflow_checks = FALSE
    /\ selected = <<>>
    /\ copy = NoCopy
    /\ ret \in {[op |-> "none", n |-> 0, text |-> t] : t \in Texts(MaxPieces)}
    /\ tasks = <<>>
    /\ DEFAULT_TUNNEL_OPTIONS = DefaultTunnelOptions

\* text.parse::<SocketSpec>()
Parse ==
    /\ ret.op = "none"
    /\ ret' = [op |-> "from_str", n |-> 1, text |-> ret.text,
               res |-> from_str(ret.text)]
    /\ UNCHANGED <<tasks, DEFAULT_TUNNEL_OPTIONS, tunnels, close_channel, run_tunnel_task, listener, conns,
                   probers, lim, overflow_checks, selected, copy>>

\* spec.to_string().parse::<SocketSpec>() on the SocketSpec parsed before
Reparse ==
    /\ ret.op = "from_str" /\ ret.res # {}
    /\ LET text == display(Unwrap(ret.res))
       IN ret' = [op |-> "reparse", n |-> 2, text |-> text, of |-> ret.res,
                  res |-> from_str(text)]
    /\ UNCHANGED <<tasks, DEFAULT_TUNNEL_OPTIONS, tunnels, close_channel, run_tunnel_task, listener, conns,
                   probers, lim, overflow_checks, selected, copy>>

ParseNext == Parse \/ Reparse

SpecParse == ParseInit /\ [][ParseNext]_vars

\* ------------------------------------------------- SpecMain: main and its Args
\* main from Args::parse() to the pending future at its end, and the control
\* interface it spawns, which opens tunnels from the specifications sent to it.

\* The tunnel specifications given as text: local, remotes and, for a text
\* with a [..] part, the retries it sets; valid is whether the text parses.
TunnelTexts ==
    {[local |-> l, remote |-> <<"A">>, retries |-> o, valid |-> TRUE]
       : l \in RegLocals, o \in {None, Some(2)}}
      \cup {[local |-> "L", remote |-> <<>>, retries |-> None, valid |-> FALSE]}

\* The values of --tunnels tried.
TunnelArgs ==
    {<<>>} \cup {<<t>> : t \in TunnelTexts}
      \cup {<<t, u>> : t \in {x \in TunnelTexts : x.local = "L" /\ x.valid},
                       u \in {x \in TunnelTexts : x.local = "M" /\ x.retries = None}}

\* Args::parse(): the command lines tried.
ArgsSet ==
    [help_tunnel : BOOLEAN, remote_retries : {1, 3}, remote_errors : {1, 2},
     control_socket : BOOLEAN, tunnels : TunnelArgs]

\* The TunnelOptions main builds from the Args.
args_options(args) ==
    [lb_strategy |-> "Random", remote_connect_retries |-> args.remote_retries,
     errors_till_dead |-> args.remote_errors, connect_timeout |-> 10,
     dead_retry |-> 10]

\* set_default_tunnel_options
set_default_tunnel_options(options) ==
    [value |-> options, writes |-> DEFAULT_TUNNEL_OPTIONS.writes + 1]

\* impl Default for TunnelOptions: a clone of the static.
TunnelOptions_default == DEFAULT_TUNNEL_OPTIONS.value

\* The options parser: TunnelOptions::default() with the items of the text
\* written over it; None for a text with no [..] part (opt(..) in tunnel).
parser_options(text) ==
    IF text.retries = None THEN None
    ELSE Some([TunnelOptions_default EXCEPT
                 !.remote_connect_retries = Unwrap(text.retries)])

\* s.parse::<Tunnel>()
parse_tunnel(text) ==
    [local |-> text.local, remote |-> text.remote,
     options |-> parser_options(text)]

\* A faulty unwrap_or_default that takes the initializer of the static;
\* C40's formula must tell it from unwrap_or_default.
unwrap_or_initializer(options) ==
    IF options = None THEN DefaultTunnelOptions.value ELSE Unwrap(options)

\* tunnel.options.unwrap_or_default() in add_tunnel
unwrap_or_default(options) ==
    IF options = None THEN TunnelOptions_default ELSE Unwrap(options)

\* main before Args::parse() returned.  opened is a history field: for each
\* tunnel instance, the options of the Tunnel it was started from.
MainInit ==
    /\ tunnels = [l \in {} |-> 0]
    /\ close_channel = <<>>
    /\ run_tunnel_task = <<>>
    /\ listener = [l \in RegLocals |-> None]
    /\ conns = [c \in Clients |-> IdleConn]
    /\ probers = <<>>
    /\ lim = RegProfile
    /\ overflow_checks = FALSE
    /\ selected = <<>>
    /\ copy = NoCopy
    /\ ret = NoRet
    /\ tasks \in {[pc |-> "start", args |-> a, tunnels |-> <<>>,
                    controller |-> FALSE, opened |-> <<>>] : a \in ArgsSet}
    /\ DEFAULT_TUNNEL_OPTIONS = DefaultTunnelOptions

\* if args.help_tunnel { Args::tunnel_help(); return Ok(()) }
MainHelpTunnel ==
    /\ tasks.pc = "start" /\ tasks.args.help_tunnel
    /\ tasks' = [tasks EXCEPT !.pc = "returned"]
    /\ UNCHANGED <<tunnels, close_channel, run_tunnel_task, listener, conns,
                   probers, lim, overflow_checks, selected, copy, ret,
                   DEFAULT_TUNNEL_OPTIONS>>

\* set_default_tunnel_options(TunnelOptions { .. }) with the Args' values
MainSetDefault ==
    /\ tasks.pc = "start" /\ ~tasks.args.help_tunnel
    /\ DEFAULT_TUNNEL_OPTIONS' = set_default_tunnel_options(args_options(tasks.args))
    /\ tasks' = [tasks EXCEPT !.pc = "take_tunnels"]
    /\ UNCHANGED <<tunnels, close_channel, run_tunnel_task, listener, conns,
                   probers, lim, overflow_checks, selected, copy, ret>>

\* args.take_tunnels(): every text is parsed; an Err ends main.
MainTakeTunnels ==
    /\ tasks.pc = "take_tunnels"
    /\ LET texts == tasks.args.tunnels
       IN tasks' = IF \A i \in DOMAIN texts : texts[i].valid
                   THEN [tasks EXCEPT !.pc = "spawn",
                            !.tunnels = [i \in DOMAIN texts |-> parse_tunnel(texts[i])]]
                   ELSE [tasks EXCEPT !.pc = "returned"]
    /\ UNCHANGED <<tunnels, close_channel, run_tunnel_task, listener, conns,
                   probers, lim, overflow_checks, selected, copy, ret,
                   DEFAULT_TUNNEL_OPTIONS>>

\* State::new, then tokio::spawn(run_controller(..)) if a control socket
\* was given.
MainSpawnController ==
    /\ tasks.pc = "spawn"
    /\ tasks' = [tasks EXCEPT !.pc = "launch",
                              !.controller = tasks.args.control_socket]
    /\ UNCHANGED <<tunnels, close_channel, run_tunnel_task, listener, conns,
                   probers, lim, overflow_checks, selected, copy, ret,
                   DEFAULT_TUNNEL_OPTIONS>>

\* start_tunnel(tunnel, state) for a parsed Tunnel; rest is the calling task
\* after the call: a tunnel instance is registered, or the
\* call returns an Err and changes nothing.
launch(tunnel, rest) ==
    IF start_tunnel_ret(tunnel.local) = "Ok" /\ tunnel.remote # <<>>
    THEN /\ start_tunnel(tunnel.local, tunnel.remote,
                         unwrap_or_default(tunnel.options))
         /\ tasks' = [rest EXCEPT !.opened = Append(@, tunnel.options)]
    ELSE /\ tasks' = rest
         /\ UNCHANGED <<tunnels, close_channel, run_tunnel_task, listener>>

\* for tunnel in tunnels { start_tunnel(tunnel, state.clone()).await }, one
\* turn; then std::future::pending().
MainLaunch ==
    /\ tasks.pc = "launch"
    /\ IF tasks.tunnels = <<>>
       THEN /\ tasks' = [tasks EXCEPT !.pc = "pending"]
            /\ UNCHANGED <<tunnels, close_channel, run_tunnel_task, listener>>
       ELSE launch(Head(tasks.tunnels), [tasks EXCEPT !.tunnels = Tail(@)])
    /\ UNCHANGED <<conns, probers, lim, overflow_checks, selected, copy, ret,
                   DEFAULT_TUNNEL_OPTIONS>>

\* The control interface, once spawned: an open command whose text is
\* parsed and started.
ControlOpen ==
    /\ tasks.controller
    /\ \E text \in {x \in TunnelTexts : x.valid} :
          launch(parse_tunnel(text), tasks)
    /\ UNCHANGED <<conns, probers, lim, overflow_checks, selected, copy, ret,
                   DEFAULT_TUNNEL_OPTIONS>>

MainNext ==
    \/ MainHelpTunnel
    \/ MainSetDefault
    \/ MainTakeTunnels
    \/ MainSpawnController
    \/ MainLaunch
    \/ ControlOpen
    \/ StopTunnel
    \/ RunTunnelExit

SpecMain == MainInit /\ [][MainNext]_vars

\* ------------------------------------- SpecLock: the registry's entry locks
\* The tasks that reach the registry, followed statement by statement: the
\* start_tunnel calls made through the control interfaces, one stop_tunnel
\* call, one process_socket task and one check_dead task.  A DashMap Ref or
\* RefMut (the guard get / get_mut return) keeps the entry's shard locked
\* until it is dropped; contains_key, insert and remove lock and unlock the
\* shard inside the call.

\* Number of start_tunnel calls in flight in one behaviour.
MaxStarters == 2

LockLocals == {"127.0.0.1:3000", "127.0.0.1:0"}
\* Locals with port 0: TcpListener::bind takes a free port of the host.
EphemeralLocals == {"127.0.0.1:0"}
LockRemotes == <<"A">>

Starters == 1..MaxStarters
Stopper == MaxStarters + 1
Socket == MaxStarters + 2
Prober == MaxStarters + 3
LockTasks == 1..(MaxStarters + 3)

\* A task: kind and pc say where it is, guard is the set of the guards it
\* holds ([key, write]), res what its call returned, sender where the watch
\* Sender it created is, overlaps the start_tunnel calls that were in flight
\* together with it, info the TunnelInfo (instance) it took out of the map
\* or whose dead entry holds its JoinHandle.
Task(kind, pc, local) ==
    [kind |-> kind, pc |-> pc, local |-> local, guard |-> {}, res |-> "",
     sender |-> "none", overlaps |-> {}, info |-> None]

\* process_socket: its calls into State and its awaits.  A State method is
\* the statement that takes the guard (get, get_mut) and the statement at
\* which the guard's scope ends (drop); none is where the task goes when the
\* key is not in the map and no guard is returned.
process_socket_program ==
    [client_connected |->
        [op |-> "get_mut", next |-> {"client_connected_end"}, none |-> "remote_retries"],
     client_connected_end |->
        [op |-> "drop", next |-> {"remote_retries"}, none |-> ""],
     remote_retries |->
        [op |-> "get", next |-> {"remote_retries_end"}, none |-> "finished"],
     remote_retries_end |->
        [op |-> "drop", next |-> {"select_remote"}, none |-> ""],
     select_remote |->
        [op |-> "get_mut", next |-> {"select_remote_end"}, none |-> "client_disconnected"],
     select_remote_end |->
        [op |-> "drop", next |-> {"connect", "client_disconnected"}, none |-> ""],
     connect |->
        [op |-> "await", next |-> {"remote_connected", "remote_error"}, none |-> ""],
     remote_connected |->
        [op |-> "get_mut", next |-> {"remote_connected_end"}, none |-> "copy_bidirectional"],
     remote_connected_end |->
        [op |-> "drop", next |-> {"copy_bidirectional"}, none |-> ""],
     copy_bidirectional |->
        [op |-> "await", next |-> {"update_transferred", "client_disconnected"}, none |-> ""],
     update_transferred |->
        [op |-> "get_mut", next |-> {"update_transferred_end"}, none |-> "copy_bidirectional"],
     update_transferred_end |->
        [op |-> "drop", next |-> {"copy_bidirectional"}, none |-> ""],
     remote_error |->
        [op |-> "get_mut", next |-> {"remote_error_end"}, none |-> "client_disconnected"],
     remote_error_end |->
        [op |-> "drop", next |-> {"select_remote", "client_disconnected"}, none |-> ""],
     client_disconnected |->
        [op |-> "get_mut", next |-> {"client_disconnected_end"}, none |-> "finished"],
     client_disconnected_end |->
        [op |-> "drop", next |-> {"finished"}, none |-> ""]]

\* A faulty check_dead that takes the entry's guard first and keeps it over
\* its connect; C31's formula must tell it from check_dead_program.
check_dead_program_guard_first ==
    [sleep |-> [op |-> "get_mut", next |-> {"connect"}, none |-> "finished"],
     connect |-> [op |-> "await", next |-> {"promote_end", "failed_end"}, none |-> ""],
     promote_end |-> [op |-> "drop", next |-> {"finished"}, none |-> ""],
     failed_end |-> [op |-> "drop", next |-> {"sleep", "finished"}, none |-> ""]]

\* The task State::check_dead spawns: sleep, connect under a timeout, then
\* the promotion of the dead entry or its re-arming, each inside the scope of
\* a get_mut guard.  The re-armed prober is followed under the same task.
check_dead_program ==
    [sleep |-> [op |-> "await", next |-> {"connect"}, none |-> ""],
     connect |-> [op |-> "await", next |-> {"promote", "failed"}, none |-> ""],
     promote |-> [op |-> "get_mut", next |-> {"promote_end"}, none |-> "finished"],
     promote_end |-> [op |-> "drop", next |-> {"finished"}, none |-> ""],
     failed |-> [op |-> "get_mut", next |-> {"failed_end"}, none |-> "finished"],
     failed_end |-> [op |-> "drop", next |-> {"sleep", "finished"}, none |-> ""]]

Program(t) ==
    IF tasks[t].kind = "process_socket" THEN process_socket_program
    ELSE IF tasks[t].kind = "check_dead" THEN check_dead_program
    ELSE [p \in {} |-> 0]

Running(t) == tasks[t].pc \in DOMAIN Program(t)
Stmt(t) == Program(t)[tasks[t].pc]

\* The statements at which a task is suspended: the awaits of the programs,
\* TcpListener::bind in create_tunnel and the select! of run_tunnel.
Suspended(t) ==
    \/ Running(t) /\ Stmt(t).op = "await"
    \/ tasks[t].kind = "start_tunnel" /\ tasks[t].pc \in {"bind", "run_tunnel"}

\* The statements at which a task asks for the lock of its entry.
Locking(t) ==
    \/ Running(t) /\ Stmt(t).op \in {"get", "get_mut"} /\ tasks[t].guard = {}
    \/ tasks[t].kind = "start_tunnel"
         /\ tasks[t].pc \in {"tunnel_exists", "contains_key", "insert"}
    \/ tasks[t].kind = "stop_tunnel" /\ tasks[t].pc = "remove"

\* DashMap's shard of a key: the keys of one map may share a shard.
shard(l) == IF lim.one_shard THEN "shard" ELSE l

\* Whether a guard held by some task keeps a reader (write = FALSE) or a
\* writer (write = TRUE) of l's shard waiting.
Conflicts(l, write) ==
    \E u \in LockTasks : \E g \in tasks[u].guard :
        shard(g.key) = shard(l) /\ (write \/ g.write)

DashMap_contains_key(t, local) == local \in DOMAIN t

\* DashMap::insert: the entry is set, the value it replaces is returned.
DashMap_insert(t, local, info) ==
    [t |-> [l \in DOMAIN t \cup {local} |-> IF l = local THEN info ELSE t[l]],
     old |-> IF local \in DOMAIN t THEN Some(t[local]) ELSE None]

\* DashMap::remove
DashMap_remove(t, local) ==
    [t |-> [l \in DOMAIN t \ {local} |-> t[l]],
     old |-> IF local \in DOMAIN t THEN Some(t[local]) ELSE None]

\* The start_tunnel calls that are between their call and their return.
InCall(u) ==
    tasks[u].pc \in {"tunnel_exists", "bind", "contains_key", "insert"}

LockInit ==
    /\ tunnels = [l \in {} |-> 0]
    /\ close_channel = <<>>
    /\ run_tunnel_task = <<>>
    /\ listener = [l \in LockLocals |-> {}]
    /\ conns = [c \in Clients |-> IdleConn]
    /\ probers = <<>>
    /\ lim \in [one_shard : BOOLEAN]
    /\ overflow_checks = FALSE
    /\ selected = <<>>
    /\ copy = NoCopy
    /\ ret = NoRet
    /\ \E ls \in [Starters \cup {Stopper} -> LockLocals] :
          tasks = [t \in LockTasks |->
                     IF t \in Starters THEN Task("start_tunnel", "idle", ls[t])
                     ELSE IF t = Stopper THEN Task("stop_tunnel", "remove", ls[t])
                     ELSE IF t = Socket
                          THEN Task("process_socket", "unspawned", ls[Stopper])
                     ELSE Task("check_dead", "unspawned", ls[Stopper])]
    /\ DEFAULT_TUNNEL_OPTIONS = DefaultTunnelOptions

LockUnchanged ==
    UNCHANGED <<close_channel, run_tunnel_task, conns, probers, lim,
                overflow_checks, selected, copy, ret, DEFAULT_TUNNEL_OPTIONS>>

\* start_tunnel is called (rpc open_tunnel, the control protocol's OPEN).
StartTunnelCall ==
    /\ \E t \in Starters :
          /\ tasks[t].pc = "idle"
          /\ tasks' = [u \in LockTasks |->
                IF u = t
                THEN [tasks[t] EXCEPT !.pc = "tunnel_exists",
                                      !.overlaps = {v \in Starters \ {t} : InCall(v)}]
                ELSE IF u \in Starters /\ InCall(u)
                THEN [tasks[u] EXCEPT !.overlaps = @ \cup {t}]
                ELSE tasks[u]]
    /\ UNCHANGED <<tunnels, listener>>
    /\ LockUnchanged

\* create_tunnel: if state.tunnel_exists(&tunnel.local) { return Err(..) }
CreateTunnelExists ==
    /\ \E t \in Starters :
          /\ tasks[t].pc = "tunnel_exists"
          /\ ~Conflicts(tasks[t].local, FALSE)
          /\ tasks' = [tasks EXCEPT ![t] =
                IF State_tunnel_exists(tunnels, tasks[t].local)
                THEN [@ EXCEPT !.pc = "returned", !.res = "TunnelExists"]
                ELSE [@ EXCEPT !.pc = "bind"]]
    /\ UNCHANGED <<tunnels, listener>>
    /\ LockUnchanged

\* create_tunnel: TcpListener::bind(..).await?, then watch::channel(false).
\* bind fails while a listener holds the address, unless the port is 0, and
\* may fail for reasons of the host.
CreateTunnelBind ==
    /\ \E t \in Starters, ok \in BOOLEAN :
          /\ tasks[t].pc = "bind"
          /\ ok => (tasks[t].local \in EphemeralLocals \/ listener[tasks[t].local] = {})
          /\ IF ok
             THEN /\ listener' = [listener EXCEPT ![tasks[t].local] = @ \cup {t}]
                  /\ tasks' = [tasks EXCEPT ![t].pc = "contains_key",
                                            ![t].sender = "held"]
             ELSE /\ listener' = listener
                  /\ tasks' = [tasks EXCEPT ![t].pc = "returned", ![t].res = "IO"]
    /\ UNCHANGED tunnels
    /\ LockUnchanged

\* add_tunnel: if self.inner.tunnels.contains_key(&tunnel.local) { return
\* Err(TunnelExists) }; the `?` of create_tunnel drops listener and sender.
AddTunnelContainsKey ==
    /\ \E t \in Starters :
          /\ tasks[t].pc = "contains_key"
          /\ ~Conflicts(tasks[t].local, FALSE)
          /\ IF DashMap_contains_key(tunnels, tasks[t].local)
             THEN /\ tasks' = [tasks EXCEPT ![t].pc = "returned",
                                            ![t].res = "TunnelExists",
                                            ![t].sender = "dropped"]
                  /\ listener' = [listener EXCEPT ![tasks[t].local] = @ \ {t}]
             ELSE /\ tasks' = [tasks EXCEPT ![t].pc = "insert"]
                  /\ listener' = listener
    /\ UNCHANGED tunnels
    /\ LockUnchanged

\* add_tunnel: self.inner.tunnels.insert(tunnel.local, info); Ok(()), then
\* start_tunnel spawns run_tunnel.  A TunnelInfo the insert replaces is
\* dropped, its Sender with it.
AddTunnelInsert ==
    /\ \E t \in Starters :
          LET local == tasks[t].local
              ins == DashMap_insert(tunnels, local,
                        TunnelInfo_new(t, LockRemotes, unwrap_or_default(None)))
          IN /\ tasks[t].pc = "insert"
             /\ ~Conflicts(local, TRUE)
             /\ tunnels' = ins.t
             /\ tasks' = [u \in LockTasks |->
                   IF u = t
                   THEN [tasks[t] EXCEPT !.pc = "run_tunnel", !.res = "Ok",
                                         !.sender = "installed"]
                   ELSE IF ins.old # None /\ Unwrap(ins.old).inst = u
                   THEN [tasks[u] EXCEPT !.sender = "overwritten"]
                   ELSE tasks[u]]
    /\ UNCHANGED listener
    /\ LockUnchanged

\* run_tunnel, the accept branch: process_socket is spawned.
RunTunnelAccept ==
    /\ \E t \in Starters :
          /\ tasks[t].pc = "run_tunnel"
          /\ tasks[Socket].pc = "unspawned"
          /\ tasks' = [tasks EXCEPT ![Socket] =
                          Task("process_socket", "client_connected", tasks[t].local)]
    /\ UNCHANGED <<tunnels, listener>>
    /\ LockUnchanged

\* run_tunnel, the close_channel.changed() branch, taken for a sent value
\* and for a dropped Sender alike: break, the listener is dropped.
RunTunnelChanged ==
    /\ \E t \in Starters :
          /\ tasks[t].pc = "run_tunnel"
          /\ tasks[t].sender \in {"sent", "overwritten"}
          /\ tasks' = [tasks EXCEPT ![t].pc = "finished"]
          /\ listener' = [listener EXCEPT ![tasks[t].local] = @ \ {t}]
    /\ UNCHANGED tunnels
    /\ LockUnchanged

\* stop_tunnel: state.remove_tunnel(local)?, which aborts the probers the
\* dead entries hold; an aborted task ends at the await it is suspended at.
StopTunnelRemove ==
    /\ LET local == tasks[Stopper].local
           rem == DashMap_remove(tunnels, local)
       IN /\ tasks[Stopper].pc = "remove"
          /\ ~Conflicts(local, TRUE)
          /\ tunnels' = rem.t
          /\ tasks' = [u \in LockTasks |->
                IF u = Stopper
                THEN IF rem.old = None
                     THEN [tasks[u] EXCEPT !.pc = "returned",
                                           !.res = "TunnelDoesNotExist"]
                     ELSE [tasks[u] EXCEPT !.pc = "send",
                                           !.info = Some(Unwrap(rem.old).inst)]
                ELSE IF rem.old # None /\ u = Unwrap(rem.old).inst
                THEN [tasks[u] EXCEPT !.sender = "removed"]
                ELSE IF rem.old # None /\ u = Prober
                        /\ tasks[u].info = Some(Unwrap(rem.old).inst)
                        /\ Suspended(u)
                THEN [tasks[u] EXCEPT !.pc = "aborted", !.guard = {}]
                ELSE tasks[u]]
    /\ UNCHANGED listener
    /\ LockUnchanged

\* stop_tunnel: tunnel_info.close_channel.send(true); Ok(())
StopTunnelSend ==
    /\ tasks[Stopper].pc = "send"
    /\ tasks' = [u \in LockTasks |->
          IF u = Stopper THEN [tasks[u] EXCEPT !.pc = "returned", !.res = "Ok"]
          ELSE IF tasks[Stopper].info = Some(u)
          THEN [tasks[u] EXCEPT !.sender = "sent"]
          ELSE tasks[u]]
    /\ UNCHANGED <<tunnels, listener>>
    /\ LockUnchanged

\* self.inner.tunnels.get(key) / get_mut(key): the task waits for the
\* shard's lock; a guard is returned when the key is in the map.
GetMut(t) ==
    /\ Running(t)
    /\ Stmt(t).op \in {"get", "get_mut"}
    /\ tasks[t].guard = {}
    /\ ~Conflicts(tasks[t].local, Stmt(t).op = "get_mut")
    /\ IF tasks[t].local \in DOMAIN tunnels
       THEN \E n \in Stmt(t).next :
               tasks' = [tasks EXCEPT
                           ![t].guard = {[key |-> tasks[t].local,
                                          write |-> Stmt(t).op = "get_mut"]},
                           ![t].pc = n]
       ELSE tasks' = [tasks EXCEPT ![t].pc = Stmt(t).none]
    /\ UNCHANGED <<tunnels, listener>>
    /\ LockUnchanged

\* The end of the guard's scope.  remote_error may have spawned check_dead
\* inside it, and the failed branch of check_dead spawns the next one.
DropGuard(t) ==
    /\ Running(t)
    /\ Stmt(t).op = "drop"
    /\ \E n \in Stmt(t).next, spawn \in BOOLEAN :
          /\ spawn => /\ tasks[t].pc = "remote_error_end"
                      /\ tasks[Prober].pc = "unspawned"
          /\ tasks' = [u \in LockTasks |->
                IF u = t
                THEN [tasks[t] EXCEPT !.guard = {}, !.pc = n]
                ELSE IF u = Prober /\ spawn
                THEN [Task("check_dead", "sleep", tasks[t].local) EXCEPT
                         !.info = Some(tunnels[tasks[t].local].inst)]
                ELSE tasks[u]]
    /\ UNCHANGED <<tunnels, listener>>
    /\ LockUnchanged

\* An await completes with one of its outcomes.
Resume(t) ==
    /\ Running(t)
    /\ Stmt(t).op = "await"
    /\ \E n \in Stmt(t).next : tasks' = [tasks EXCEPT ![t].pc = n]
    /\ UNCHANGED <<tunnels, listener>>
    /\ LockUnchanged

TaskGetMut == \E t \in {Socket, Prober} : GetMut(t)
TaskDropGuard == \E t \in {Socket, Prober} : DropGuard(t)
TaskResume == \E t \in {Socket, Prober} : Resume(t)

LockNext ==
    \/ StartTunnelCall
    \/ CreateTunnelExists
    \/ CreateTunnelBind
    \/ AddTunnelContainsKey
    \/ AddTunnelInsert
    \/ RunTunnelAccept
    \/ RunTunnelChanged
    \/ StopTunnelRemove
    \/ StopTunnelSend
    \/ TaskGetMut
    \/ TaskDropGuard
    \/ TaskResume

SpecLock == LockInit /\ [][LockNext]_vars

\* The synchronous statements of a task: the DashMap calls and the ends of the
\* guards' scopes.
LockStep ==
    CreateTunnelExists \/ AddTunnelContainsKey \/ AddTunnelInsert
        \/ StopTunnelRemove \/ StopTunnelSend \/ TaskGetMut \/ TaskDropGuard

\* A synchronous statement of task t.
LockStepOf(t) ==
    LockStep /\ (tasks'[t].pc # tasks[t].pc \/ tasks'[t].guard # tasks[t].guard)

\* The tasks of one key, which all ask for the same lock.
LockInitOneKey ==
    /\ LockInit
    /\ lim.one_shard
    /\ \A t \in LockTasks : tasks[t].local = tasks[Stopper].local

\* Every task runs its synchronous statements to their end and a lock that
\* is free again and again is given to each of its waiters; nothing is
\* assumed about the awaits, which complete when the network, the timers
\* and the callers make them.
FairSpecLock ==
    /\ LockInitOneKey
    /\ [][LockNext]_vars
    /\ \A t \in LockTasks : SF_vars(LockStepOf(t))

\* ----------------------------- SpecXfer: transfers on the tunnel's connections
\* The clients of one tunnel, whose spliced connections report the bytes
\* they move while other clients' connects fail and probers run.

\* Number of update_transferred calls applied to a tunnel in one behaviour.
MaxTransfers == 2

XferInit ==
    /\ tunnels = [l \in {} |-> 0]
    /\ close_channel = <<>>
    /\ run_tunnel_task = <<>>
    /\ listener = [l \in Locals |-> None]
    /\ conns = [c \in Clients |-> IdleConn]
    /\ probers = <<>>
    /\ lim = [clients |-> MaxClients, gens |-> 1, probers |-> MaxProbers,
              admin |-> FALSE]
    /\ overflow_checks \in BOOLEAN
    /\ selected = <<>>
    /\ copy = NoCopy
    /\ ret = NoRet
    /\ tasks = <<>>
    /\ DEFAULT_TUNNEL_OPTIONS = DefaultTunnelOptions

\* A progress callback of a spliced connection's copy_bidirectional:
\* update_sent or update_recieved with the bytes of one accepted write.
UpdateTransferred ==
    /\ \E c \in Clients, sent \in BOOLEAN :
          LET local == Unwrap(conns[c].tunnel_key)
          IN /\ conns[c].pc = "copying"
             /\ local \in DOMAIN tunnels
             /\ tunnels[local].stats.bytes_sent
                   + tunnels[local].stats.bytes_received < MaxTransfers
             /\ tunnels' = State_update_transferred(
                               tunnels, local, Unwrap(conns[c].connected_to),
                               sent, 1)
    /\ UNCHANGED <<tasks, DEFAULT_TUNNEL_OPTIONS, close_channel, run_tunnel_task, listener, conns, probers,
                   lim, overflow_checks, selected, copy, ret>>

XferNext ==
    \/ StartTunnel
    \/ StopTunnel
    \/ Accept
    \/ RunTunnelExit
    \/ ClientConnected
    \/ RemoteRetries
    \/ SelectRemote
    \/ ConnectOk
    \/ ConnectErr
    \/ CopyReturns
    \/ ClientDisconnected
    \/ ProbeConnected
    \/ ProbeFailed
    \/ UpdateTransferred

SpecXfer == XferInit /\ [][XferNext]_vars

\* ------------------------------- SpecBytes: the copy engine and the registry
\* The connections of a tunnel, one after the other, each spliced to its
\* remote by copy_bidirectional, whose progress callbacks call
\* update_transferred; the tunnel is closed and opened again meanwhile.

\* Number of connections spliced in one behaviour.
MaxXferConns == 2
\* Number of tunnel instances in one behaviour.
MaxXferGens == 2

XferRemotes == <<"A">>

\* copy_bidirectional called by process_socket for connection n of tunnel
\* instance inst with its remote; finish as in copy_bidirectional.  before
\* is a history field: the bytes the two writers accepted in the earlier
\* connections of the instance.
connection(inst, local, remote, n, before, finish) ==
    LET c == copy_bidirectional(finish)
    IN [a_to_b |-> c.a_to_b, b_to_a |-> c.b_to_a, finish |-> c.finish,
        interrupted |-> c.interrupted, result |-> c.result,
        inst |-> inst, local |-> local, remote |-> remote, n |-> n,
        before |-> before]

RECURSIVE update_progress(_, _, _, _, _)
\* The calls of one direction's update_progress closure, in order.
update_progress(t, local, remote, sent, values) ==
    IF values = <<>> THEN t
    ELSE update_progress(
             State_update_transferred(t, local, remote, sent, Head(values)),
             local, remote, sent, Tail(values))

BytesInit ==
    /\ tunnels = [l \in {} |-> 0]
    /\ close_channel = <<>>
    /\ run_tunnel_task = <<>>
    /\ listener = [l \in Locals |-> None]
    /\ conns = [c \in Clients |-> IdleConn]
    /\ probers = <<>>
    /\ lim = [clients |-> 0, gens |-> MaxXferGens, probers |-> 0, admin |-> FALSE]
    /\ overflow_checks = FALSE
    /\ selected = <<>>
    /\ copy = [connection(0, "", "", 0, <<0, 0>>, FALSE)
                 EXCEPT !.result = [res |-> "none"]]
    /\ ret = NoRet
    /\ tasks = <<>>
    /\ DEFAULT_TUNNEL_OPTIONS = DefaultTunnelOptions

BytesStartTunnel ==
    /\ \E local \in Locals, options \in RegOptions :
          start_tunnel(local, XferRemotes, options)
    /\ UNCHANGED <<tasks, DEFAULT_TUNNEL_OPTIONS, conns, probers, lim, overflow_checks, selected, copy, ret>>

\* stop_tunnel; the connection's finish futures are ready once the value is
\* sent on the channel of its instance.
BytesStopTunnel ==
    /\ \E local \in Locals : stop_tunnel(local)
    /\ copy' = IF copy.inst \in DOMAIN close_channel /\ close_channel'[copy.inst]
                  /\ ~copy.finish
               THEN [copy EXCEPT !.finish = TRUE,
                                 !.interrupted = (copy.result.res = "Pending")]
               ELSE copy
    /\ UNCHANGED <<tasks, DEFAULT_TUNNEL_OPTIONS, run_tunnel_task, listener, conns, lim, overflow_checks,
                   selected, ret>>

\* A client is accepted by the running accept loop of an instance and
\* process_socket connects it to the remote: copy_bidirectional starts.
BytesConnect ==
    /\ copy.result.res # "Pending"
    /\ copy.n < MaxXferConns
    /\ \E local \in Locals :
          /\ listener[local] # None
          /\ LET inst == Unwrap(listener[local])
                 before == IF copy.inst = inst
                           THEN <<copy.before[1] + Len(copy.a_to_b.buf.written),
                                  copy.before[2] + Len(copy.b_to_a.buf.written)>>
                           ELSE <<0, 0>>
             IN /\ run_tunnel_task[inst] = "running"
                /\ copy' = connection(inst, local, XferRemotes[1], copy.n + 1,
                                      before, changed(inst))
    /\ UNCHANGED <<tasks, DEFAULT_TUNNEL_OPTIONS, tunnels, close_channel, run_tunnel_task, listener, conns,
                   probers, lim, overflow_checks, selected, ret>>

\* The runtime polls the connection's future; every write the two
\* directions get accepted is reported through update_sent (a_to_b) and
\* update_recieved (b_to_a).
BytesPoll ==
    /\ copy.result.res = "Pending"
    /\ \E cp \in CopyBidirectional_poll(copy) :
          LET new(d) == SubSeq(cp[d].buf.progress,
                               Len(copy[d].buf.progress) + 1,
                               Len(cp[d].buf.progress))
              t1 == update_progress(tunnels, copy.local, copy.remote, TRUE,
                                    new("a_to_b"))
          IN /\ copy' = cp
             /\ tunnels' = update_progress(t1, copy.local, copy.remote, FALSE,
                                           new("b_to_a"))
    /\ UNCHANGED <<tasks, DEFAULT_TUNNEL_OPTIONS, close_channel, run_tunnel_task, listener, conns, probers,
                   lim, overflow_checks, selected, ret>>

BytesNext ==
    \/ BytesStartTunnel
    \/ BytesStopTunnel
    \/ RunTunnelExit
    \/ BytesConnect
    \/ BytesPoll

SpecBytes == BytesInit /\ [][BytesNext]_vars

\* ------------------------------------------------------------ properties
\* Tunnel instance inst is in the registry.
Registered(inst) == \E l \in DOMAIN tunnels : tunnels[l].inst = inst

\* Every RemoteInfo of a tunnel, live or dead.
RemoteInfos(ti) ==
    {ti.remotes[i].v : i \in DOMAIN ti.remotes}
      \cup {ti.dead_remotes[i].v.remote : i \in DOMAIN ti.dead_remotes}

\* Some process_socket task panicked at the decrement named site.
PanickedAt(site) == \E c \in Clients : conns[c].pc = "panicked:" \o site

\* C1: while a started tunnel is registered, stop_tunnel(local) returns Ok;
\* the stop_tunnel step leaves the registry without the local (list_tunnels
\* omits it, number_of_tunnels is one less); an instance that left the
\* registry never comes back; and the accept loop of an instance that left
\* the registry eventually terminates.
C1_stop_tunnel ==
    /\ [](\A l \in Locals :
            State_tunnel_exists(tunnels, l) => stop_tunnel_ret(l) = "Ok")
    /\ [][\A l \in Locals :
             stop_tunnel(l) =>
                /\ l \notin State_list_tunnels(tunnels')
                /\ State_number_of_tunnels(tunnels')
                      = State_number_of_tunnels(tunnels) - 1]_vars
    /\ [][\A inst \in DOMAIN close_channel :
             ~Registered(inst) =>
                ~(\E l \in DOMAIN tunnels' : tunnels'[l].inst = inst)]_vars
    /\ \A inst \in 1..MaxGens :
          (inst \in DOMAIN close_channel /\ ~Registered(inst))
             ~> (inst \in DOMAIN run_tunnel_task /\ run_tunnel_task[inst] = "done")

\* C1's case: a tunnel was started and stopped, it is out of the registry,
\* its accept loop has ended, and a connection it accepted is still copying.
C1_witness ==
    /\ \E inst \in DOMAIN run_tunnel_task :
          run_tunnel_task[inst] = "done" /\ close_channel[inst] /\ ~Registered(inst)
    /\ "L" \notin State_list_tunnels(tunnels)
    /\ State_number_of_tunnels(tunnels) = 0
    /\ \E c \in Clients : conns[c].pc = "copying"

\* C2: for every tunnel, stats.streams_open is the number of
\* client_connected events applied to it minus the number of
\* client_disconnected events applied to it, it is not negative (it did not
\* wrap below 0), and no client_disconnected panicked decrementing it at 0.
C2_streams_open_balance ==
    /\ \A l \in DOMAIN tunnels :
          /\ tunnels[l].stats.streams_open
                = tunnels[l].n_connected - tunnels[l].n_disconnected
          /\ tunnels[l].stats.streams_open >= 0
    /\ ~PanickedAt("client_disconnected.stats.streams_open")

\* C3: every RemoteInfo has streams_open >= 0 and streams_pending >= 0
\* (neither wrapped below 0), and no decrement of either in remote_connected,
\* remote_error or client_disconnected panicked on a counter that was 0.
C3_remote_counters_nonneg ==
    /\ \A l \in DOMAIN tunnels : \A r \in RemoteInfos(tunnels[l]) :
          r.streams_open >= 0 /\ r.streams_pending >= 0
    /\ ~PanickedAt("remote_connected.streams_pending")
    /\ ~PanickedAt("remote_error.streams_pending")
    /\ ~PanickedAt("client_disconnected.streams_open")

\* C4: in every tunnel no remote key is in both remotes and dead_remotes.
C4_live_dead_disjoint ==
    \A l \in DOMAIN tunnels :
        Keys(tunnels[l].remotes) \cap Keys(tunnels[l].dead_remotes) = {}

\* C4's case: a tunnel with a live and a dead remote, after a prober ran to
\* its end and while another is scheduled.
C4_witness ==
    /\ \E l \in DOMAIN tunnels :
          tunnels[l].remotes # <<>> /\ tunnels[l].dead_remotes # <<>>
    /\ \E p \in DOMAIN probers : probers[p].st = "finished"
    /\ \E p \in DOMAIN probers : probers[p].st = "scheduled"

C7_select_remote_live ==
    \A l \in DOMAIN tunnels : \A o \in State_select_remote(tunnels, l) :
        /\ o.ok => /\ Unwrap(o.key) \in Keys(tunnels[l].remotes)
                   /\ Unwrap(o.key) \notin Keys(tunnels[l].dead_remotes)
                   /\ Unwrap(o.key) \in Keys(o.t[l].remotes)
        /\ tunnels[l].remotes = <<>> => (~o.ok /\ o.err = "NoRemote")

\* C7's case: every remote of the tunnel is dead and a connection left its
\* retry loop, retries unspent, because select_remote gave it an error.
C7_witness ==
    \E c \in Clients :
        /\ conns[c].pc = "disconnect"
        /\ conns[c].retries > 0
        /\ conns[c].tunnel_key # None
        /\ Unwrap(conns[c].tunnel_key) \in DOMAIN tunnels
        /\ tunnels[Unwrap(conns[c].tunnel_key)].remotes = <<>>
        /\ tunnels[Unwrap(conns[c].tunnel_key)].dead_remotes # <<>>

C9_round_robin_cycle ==
    LET ti == tunnels["L"]
        N == Len(ti.remotes)
        idx(j) == Unwrap(selected[j].idx)
    IN (ti.options.lb_strategy = "RoundRobin" /\ N >= 2) =>
         /\ \A j \in DOMAIN selected :
               /\ selected[j].ok
               /\ idx(j) \in 0..(N - 1)
               /\ selected[j].key = Some(ti.remotes[idx(j) + 1].k)
         /\ \A j \in 1..(Len(selected) - 1) : idx(j + 1) = (idx(j) + 1) % N
         /\ \A j, k \in DOMAIN selected :
               (j < k /\ k - j < N) => idx(j) # idx(k)
         /\ (selected # <<>> /\ selected[1].first) => idx(1) = 0
         /\ (N = 3 /\ Len(selected) = 4 /\ selected[1].first)
               => [j \in 1..4 |-> Unwrap(selected[j].key)] = <<"A", "B", "C", "A">>

\* C9's case: four selections were made on a fresh round-robin tunnel with
\* the three remotes A, B, C.
C9_witness ==
    /\ tunnels["L"].options.lb_strategy = "RoundRobin"
    /\ Len(tunnels["L"].remotes) = 3
    /\ Len(selected) = 4
    /\ selected[1].first
    /\ selected[4].key = Some("A")

\* C10: a select_remote of a MinimumOpenConnections tunnel with N >= 2 live
\* remotes returns the key at an index r whose load streams_open +
\* streams_pending (a usize sum, read before the call) is <= the load at
\* every index, and no smaller index has the same load.
C10_minimum_open_connections ==
    [][LET ti == tunnels["L"]
           N == Len(ti.remotes)
           load(i) == ti.remotes[i + 1].v.streams_open
                        + ti.remotes[i + 1].v.streams_pending
           r == Unwrap(selected'[Len(selected')].idx)
       IN (/\ Len(selected') = Len(selected) + 1
           /\ ti.options.lb_strategy = "MinimumOpenConnections"
           /\ N >= 2)
          => /\ r \in 0..(N - 1)
             /\ selected'[Len(selected')].key = Some(ti.remotes[r + 1].k)
             /\ \A i \in 0..(N - 1) : ~ULt(load(i), load(r))
             /\ \A i \in 0..(r - 1) : load(i) # load(r)]_vars

\* C10's case: A has 3 streams open and B none; the one selection made
\* returned index 1 (B) and left it one pending stream.
C10_witness ==
    /\ tunnels["L"].options.lb_strategy = "MinimumOpenConnections"
    /\ Len(tunnels["L"].remotes) = 2
    /\ tunnels["L"].remotes[1].v.streams_open = 3
    /\ tunnels["L"].remotes[2].v.streams_open = 0
    /\ tunnels["L"].remotes[2].v.streams_pending = 1
    /\ Len(selected) = 1
    /\ selected[1].idx = Some(1)
    /\ selected[1].key = Some("B")

\* C11: for a connection with retries read from remote_retries, the number
\* of attempts (select_remote returning Ok, then a connect) is at most
\* retries; every attempt that is over either failed and called remote_error
\* once or succeeded and called remote_connected once, and at most one
\* succeeded; while the task selects or connects fewer than retries attempts
\* have failed and none has succeeded, so once retries attempts have failed
\* the task is past the loop, about to close the connection.
C11_retry_bound ==
    \A c \in Clients :
        LET k == conns[c]
            started == k.pc \in {"select", "connecting", "copying", "disconnect"}
            in_flight == IF k.pc = "connecting" THEN 1 ELSE 0
        IN /\ ~started => k.attempts = 0
           /\ started =>
                LET n == Unwrap(k.configured)
                IN /\ k.configured # None
                   /\ k.attempts <= n
                   /\ k.n_remote_connected <= 1
                   /\ k.attempts = k.n_remote_error + k.n_remote_connected + in_flight
                   /\ k.pc \in {"select", "connecting"} =>
                         (k.n_remote_error < n /\ k.n_remote_connected = 0)
                   /\ k.pc = "copying" => k.n_remote_connected = 1
                   /\ (k.n_remote_error = n) => k.pc = "disconnect"

\* C11's case: a connection of a tunnel with retries = 2 failed twice, on
\* two attempts, and is past the loop with no remote.
C11_witness ==
    \E c \in Clients :
        /\ conns[c].configured = Some(2)
        /\ conns[c].attempts = 2
        /\ conns[c].n_remote_error = 2
        /\ conns[c].pc = "disconnect"
        /\ conns[c].last_remote = None

\* C12: a connection that reads retries = 0 from remote_retries goes
\* straight to client_disconnected: the step selects nothing and leaves the
\* registry as it is; its client_disconnected is called with no remote,
\* leaves every remote record (live and dead) as it is and, when it returns,
\* takes the connection off the tunnel's streams_open.
C12_retries_zero ==
    /\ [][\A c \in Clients :
             LET local == Unwrap(conns[c].tunnel_key)
             IN (/\ conns[c].pc = "retries"
                 /\ conns'[c].pc # "retries"
                 /\ local \in DOMAIN tunnels
                 /\ tunnels[local].options.remote_connect_retries = 0)
                => /\ conns'[c].pc = "disconnect"
                   /\ conns'[c].attempts = 0
                   /\ conns'[c].last_remote = None
                   /\ tunnels' = tunnels]_vars
    /\ [][\A c \in Clients :
             LET local == Unwrap(conns[c].tunnel_key)
             IN (/\ conns[c].pc = "disconnect"
                 /\ conns[c].configured = Some(0)
                 /\ conns'[c].pc # "disconnect"
                 /\ local \in DOMAIN tunnels)
                => /\ conns[c].attempts = 0
                   /\ conns[c].last_remote = None
                   /\ local \in DOMAIN tunnels'
                   /\ tunnels'[local].remotes = tunnels[local].remotes
                   /\ tunnels'[local].dead_remotes = tunnels[local].dead_remotes
                   /\ conns'[c].pc = "returned_ok" =>
                         /\ tunnels'[local].stats.streams_open
                               = tunnels[local].stats.streams_open - 1
                         /\ tunnels'[local].n_disconnected
                               = tunnels[local].n_disconnected + 1]_vars

\* C12's case: a tunnel with retries = 0 served a client to its end: one
\* client_connected, one client_disconnected, every remote untouched.
C12_witness ==
    \E l \in DOMAIN tunnels :
        /\ tunnels[l].options.remote_connect_retries = 0
        /\ tunnels[l].n_connected = 1
        /\ tunnels[l].n_disconnected = 1
        /\ tunnels[l].stats.streams_open = 0
        /\ tunnels[l].stats.total_connections = 1
        /\ tunnels[l].dead_remotes = <<>>
        /\ \A i \in DOMAIN tunnels[l].remotes :
              tunnels[l].remotes[i].v = RemoteInfo_default
        /\ \E c \in Clients : conns[c].pc = "returned_ok"

\* C13: a connection whose client_connected was applied to a tunnel
\* instance calls client_disconnected with the remote its connect succeeded
\* to (none if there was none); the call is applied to that instance if it
\* is still registered; and the connection does get to its
\* client_disconnected unless the instance leaves the registry.
C13_client_disconnected ==
    /\ [](\A c \in Clients :
            conns[c].pc \in {"copying", "disconnect"}
               => conns[c].last_remote = conns[c].connected_to)
    /\ [][\A c \in Clients : \A l \in DOMAIN tunnels :
             (/\ conns[c].counted = Some(tunnels[l].inst)
              /\ conns[c].pc \in {"copying", "disconnect"}
              /\ conns'[c].pc = "returned_ok")
             => /\ l \in DOMAIN tunnels'
                /\ tunnels'[l].n_disconnected = tunnels[l].n_disconnected + 1]_vars
    /\ \A c \in Clients : \A inst \in 1..MaxGens :
          (conns[c].counted = Some(inst))
             ~> \/ conns[c].pc \in {"returned_ok",
                                    "panicked:client_disconnected.streams_open"}
                \/ ~Registered(inst)

\* A control call was made in this step.
Called(op) == ret' # ret /\ ret'.op = op

\* C14: add_tunnel for a registered local returns TunnelExists and leaves
\* the map as it is, whatever tunnel it is given; an open_tunnel call for a
\* registered local returns TunnelExists (create_tunnel's test) and leaves
\* the registry, with the counters, remotes and dead remotes of the existing
\* TunnelInfo, its close channel, the probers and number_of_tunnels as they
\* were.
C14_add_tunnel_exists ==
    /\ [](\A l \in DOMAIN tunnels :
            \A remote \in RegRemoteLists \cup RemoteLists :
              \A options \in RegOptions : \A inst \in 1..MaxRegGens :
                LET r == State_add_tunnel(tunnels, l, remote, options, inst)
                IN r.res = "TunnelExists" /\ r.t = tunnels)
    /\ [][(Called("open_tunnel") /\ ret'.local \in DOMAIN tunnels)
            => /\ ret'.res = "TunnelExists"
               /\ tunnels' = tunnels
               /\ close_channel' = close_channel
               /\ probers' = probers
               /\ run_tunnel_task' = run_tunnel_task
               /\ listener' = listener
               /\ State_number_of_tunnels(tunnels')
                     = State_number_of_tunnels(tunnels)]_vars

\* C14's case: open_tunnel was refused with TunnelExists for a tunnel that
\* has served a client, has a dead remote with its prober scheduled, and
\* whose close channel has not fired.
C14_witness ==
    /\ ret.op = "open_tunnel" /\ ret.res = "TunnelExists" /\ ret.local = "L"
    /\ "L" \in DOMAIN tunnels
    /\ tunnels["L"].stats.total_connections >= 1
    /\ tunnels["L"].dead_remotes # <<>>
    /\ ~close_channel[tunnels["L"].inst]
    /\ \E p \in DOMAIN probers : probers[p].st = "scheduled"

\* C15: a close_tunnel call returns Ok exactly when the local is
\* registered and TunnelDoesNotExist otherwise; it leaves the local
\* unregistered and every other tunnel as it was, and when it is refused it
\* changes nothing; a local that is not registered becomes registered by an
\* open_tunnel call alone.  So of two calls with no open_tunnel in between
\* the first returns Ok and the second TunnelDoesNotExist.
C15_stop_twice ==
    /\ [][\A l \in RegLocals :
             (Called("close_tunnel") /\ ret'.local = l)
             => /\ ret'.res = IF l \in DOMAIN tunnels THEN "Ok"
                              ELSE "TunnelDoesNotExist"
                /\ DOMAIN tunnels' = DOMAIN tunnels \ {l}
                /\ \A m \in DOMAIN tunnels' : tunnels'[m] = tunnels[m]
                /\ ret'.res = "TunnelDoesNotExist"
                      => /\ close_channel' = close_channel
                         /\ probers' = probers]_vars
    /\ [][\A l \in RegLocals :
             (l \notin DOMAIN tunnels /\ l \in DOMAIN tunnels')
             => (Called("open_tunnel") /\ ret'.local = l /\ ret'.res = "Ok")]_vars

\* C15's case: "L" was closed (its close channel fired), a second
\* close_tunnel("L") was refused with TunnelDoesNotExist, and "M" is still
\* registered, its channel silent.
C15_witness ==
    /\ ret.op = "close_tunnel" /\ ret.local = "L"
    /\ ret.res = "TunnelDoesNotExist"
    /\ \E inst \in DOMAIN close_channel : close_channel[inst]
    /\ "M" \in DOMAIN tunnels
    /\ ~close_channel[tunnels["M"].inst]

\* C16: a remove_remote call on a registered tunnel returns
\* RemoteDoesNotExist exactly when the remote is in neither map; otherwise it
\* returns Ok and leaves the remote in neither map; and if the remote was in
\* dead_remotes the prober its entry held is not scheduled any more.
C16_remove_remote_aborts_prober ==
    [][\A l \in RegLocals : \A r \in RegRemoteKeys :
         (/\ Called("remove_remote")
          /\ ret'.local = l /\ ret'.remote = Some(r)
          /\ l \in DOMAIN tunnels)
         => LET ti == tunnels[l]
                live == contains_key(ti.remotes, r)
                dead == contains_key(ti.dead_remotes, r)
            IN /\ ret'.res = IF live \/ dead THEN "Ok" ELSE "RemoteDoesNotExist"
               /\ ~contains_key(tunnels'[l].remotes, r)
               /\ ~contains_key(tunnels'[l].dead_remotes, r)
               /\ dead => \A h \in get(ti.dead_remotes, r).join_handle :
                              probers'[h].st # "scheduled"]_vars

\* C17: when a tunnel leaves the registry (remove_tunnel returned), no
\* prober spawned for that tunnel instance is scheduled.
C17_no_orphan_prober ==
    [][\A l \in DOMAIN tunnels :
         l \notin DOMAIN tunnels'
         => \A p \in DOMAIN probers' :
               probers'[p].inst = tunnels[l].inst
                  => probers'[p].st # "scheduled"]_vars

\* C19: an add_remote call on a registered tunnel returns RemoteExists and
\* changes nothing when the remote is in remotes or in dead_remotes;
\* otherwise it returns Ok, appends the remote to remotes with every counter
\* zero and leaves the other live records, dead_remotes and the other
\* tunnels as they were.
C19_add_remote ==
    [][\A l \in RegLocals : \A r \in RegRemoteKeys :
         (/\ Called("add_remote")
          /\ ret'.local = l /\ ret'.remote = Some(r)
          /\ l \in DOMAIN tunnels)
         => LET ti == tunnels[l]
                present == \/ contains_key(ti.remotes, r)
                           \/ contains_key(ti.dead_remotes, r)
            IN /\ present => (ret'.res = "RemoteExists" /\ tunnels' = tunnels)
               /\ ~present =>
                     /\ ret'.res = "Ok"
                     /\ tunnels' =
                          [tunnels EXCEPT ![l].remotes =
                              Append(ti.remotes,
                                     [k |-> r,
                                      v |-> [streams_open |-> 0,
                                             streams_pending |-> 0,
                                             total_connections |-> 0,
                                             num_errors |-> 0,
                                             total_errors |-> 0,
                                             bytes_sent |-> 0,
                                             bytes_received |-> 0]])]]_vars

\* C19's case: remote C was added to a tunnel that has a dead remote and a
\* live one behind which C now stands, its counters zero.
C19_witness ==
    /\ ret.op = "add_remote" /\ ret.res = "Ok"
    /\ ret.local = "L" /\ ret.remote = Some("C")
    /\ "L" \in DOMAIN tunnels
    /\ tunnels["L"].dead_remotes # <<>>
    /\ Len(tunnels["L"].remotes) = 2
    /\ tunnels["L"].remotes[2] = [k |-> "C", v |-> RemoteInfo_default]

\* C20: no step changes the relative order of the remotes that stay in a
\* tunnel's live map (and a remote enters the map behind those in it), so
\* the index order of the live map is the order of insertion into it.
C20_insertion_order ==
    [][\A l \in DOMAIN tunnels \cap DOMAIN tunnels' :
         tunnels'[l].inst = tunnels[l].inst
         => LET m == tunnels[l].remotes
                m2 == tunnels'[l].remotes
            IN /\ \A a, b \in Keys(m) \cap Keys(m2) :
                     IndexOf(m, a) < IndexOf(m, b)
                        => IndexOf(m2, a) < IndexOf(m2, b)
               /\ \A a \in Keys(m) \cap Keys(m2) : \A b \in Keys(m2) \ Keys(m) :
                     IndexOf(m2, a) < IndexOf(m2, b)]_vars

\* C18: a remote in dead_remotes of a registered tunnel leaves dead_remotes
\* only by a prober's promotion, which puts it in remotes with num_errors 0,
\* or by an explicit removal (or with its tunnel); a probe that fails (the
\* prober ends and its successor is spawned) leaves it in dead_remotes with
\* one more error; and, the probers getting to connect, a dead remote does
\* leave dead_remotes unless its tunnel leaves the registry.
C18_prober_recovers ==
    /\ [][\A l \in DOMAIN tunnels \cap DOMAIN tunnels' : \A r \in RemoteKeys :
             (/\ tunnels'[l].inst = tunnels[l].inst
              /\ contains_key(tunnels[l].dead_remotes, r))
             => LET d == get(tunnels[l].dead_remotes, r)
                    promoted ==
                        /\ contains_key(tunnels'[l].remotes, r)
                        /\ get(tunnels'[l].remotes, r)
                              = [d.remote EXCEPT !.num_errors = 0]
                        /\ \E p \in DOMAIN probers :
                              /\ probers[p].local = l /\ probers[p].remote = r
                              /\ probers[p].st = "scheduled"
                              /\ probers'[p].st = "finished"
                        /\ Len(probers') = Len(probers)
                    removed ==
                        /\ lim.admin
                        /\ ~contains_key(tunnels'[l].remotes, r)
                        /\ probers' = probers
                    failed ==
                        /\ \E p \in DOMAIN probers :
                              /\ probers[p].local = l /\ probers[p].remote = r
                              /\ probers[p].inst = tunnels[l].inst
                              /\ probers[p].st = "scheduled"
                              /\ probers'[p].st = "finished"
                        /\ Len(probers') = Len(probers) + 1
                IN /\ ~contains_key(tunnels'[l].dead_remotes, r)
                      => (promoted \/ removed)
                   /\ failed
                      => /\ contains_key(tunnels'[l].dead_remotes, r)
                         /\ ~contains_key(tunnels'[l].remotes, r)
                         /\ get(tunnels'[l].dead_remotes, r).remote.num_errors
                               = d.remote.num_errors + 1]_vars
    /\ \A inst \in 1..MaxGens : \A r \in RemoteKeys :
          (\E l \in DOMAIN tunnels :
              tunnels[l].inst = inst /\ contains_key(tunnels[l].dead_remotes, r))
             ~> \/ ~Registered(inst)
                \/ \E l \in DOMAIN tunnels :
                      /\ tunnels[l].inst = inst
                      /\ ~contains_key(tunnels[l].dead_remotes, r)

\* C18's case: a remote went dead, its first probe failed and the
\* successor's probe succeeded: it is live again with num_errors 0, the two
\* errors still in its total, both probers at their end.
C18_witness ==
    /\ Len(probers) = 2
    /\ \A p \in DOMAIN probers : probers[p].st = "finished"
    /\ \E l \in DOMAIN tunnels : \E i \in DOMAIN tunnels[l].remotes :
          /\ tunnels[l].remotes[i].k = probers[2].remote
          /\ probers[1].remote = probers[2].remote
          /\ tunnels[l].remotes[i].v.num_errors = 0
          /\ tunnels[l].remotes[i].v.total_errors = 2
          /\ tunnels[l].dead_remotes = <<>>

RECURSIVE Sum(_)
\* The sum of a sequence of numbers.
Sum(s) == IF s = <<>> THEN 0 ELSE Head(s) + Sum(Tail(s))

\* The RemoteInfo records of a tunnel, live ones first, then the dead ones.
remote_infos(ti) ==
    [i \in DOMAIN ti.remotes |-> ti.remotes[i].v]
        \o [i \in DOMAIN ti.dead_remotes |-> ti.dead_remotes[i].v.remote]

\* C21: in a behaviour in which no remote is removed from a tunnel, the
\* tunnel's stats.errors equals the sum of total_errors over its remotes
\* and dead_remotes.
C21_errors_is_sum ==
    ~lim.admin =>
        \A l \in DOMAIN tunnels :
            tunnels[l].stats.errors
                = Sum([i \in DOMAIN remote_infos(tunnels[l]) |->
                          remote_infos(tunnels[l])[i].total_errors])

\* C22: a tunnel's stats.total_connections is the number of client_connected
\* events applied to it, and, in a behaviour in which no remote is removed,
\* the sum of total_connections over its remotes, live and dead, is the
\* number of remote_connected events applied to it and so is at most the
\* tunnel's total.
C22_total_connections ==
    \A l \in DOMAIN tunnels :
        LET per_remote == Sum([i \in DOMAIN remote_infos(tunnels[l]) |->
                                  remote_infos(tunnels[l])[i].total_connections])
        IN /\ tunnels[l].stats.total_connections = tunnels[l].n_connected
           /\ ~lim.admin =>
                 /\ per_remote = tunnels[l].n_remote_connected
                 /\ per_remote <= tunnels[l].stats.total_connections

\* The two directions of the copy.
Directions == {copy.a_to_b, copy.b_to_a}

\* C24: in each direction the bytes the writer accepted are, in order, the
\* first bytes read from the reader, and once the direction has left
\* Running with the reader at its end and the buffer written out, they are
\* all the bytes read.
C24_bytes_in_order ==
    \A d \in Directions :
        /\ Len(d.buf.written) <= d.buf.nread
        /\ d.buf.written = SubSeq(Stream, 1, Len(d.buf.written))
        /\ (d.state # "Running" /\ d.buf.read_done /\ d.buf.pos = d.buf.cap)
              => d.buf.written = SubSeq(Stream, 1, d.buf.nread)

\* C24's case: a direction whose buffer was topped up while a write was
\* pending finished at the reader's end with every byte written in order.
C24_witness ==
    \E d \in Directions :
        /\ d.state = "Done" /\ d.buf.read_done /\ d.buf.topped_up
        /\ d.buf.written = Stream

\* The place of a TransferState in Running -> ShuttingDown -> Done.
Rank(state) == CASE state = "Running" -> 0 [] state = "ShuttingDown" -> 1 [] OTHER -> 2

\* C29: a direction never moves backwards in Running -> ShuttingDown ->
\* Done; a direction that is Done is left as it is by every further poll
\* (same count, no byte read or written); the copy's result is Ok only
\* with both directions Done and is then their two counts, each the bytes
\* its writer accepted; and a result Err names the call that failed.
C29_transfer_states ==
    /\ [][\A d \in {"a_to_b", "b_to_a"} :
             /\ Rank(copy'[d].state) >= Rank(copy[d].state)
             /\ copy[d].state = "Done" => copy'[d] = copy[d]]_vars
    /\ [](copy.result.res = "Ok" =>
             /\ copy.a_to_b.state = "Done" /\ copy.b_to_a.state = "Done"
             /\ copy.result.counts = <<copy.a_to_b.count, copy.b_to_a.count>>
             /\ copy.a_to_b.count = Len(copy.a_to_b.buf.written)
             /\ copy.b_to_a.count = Len(copy.b_to_a.buf.written))
    /\ [](copy.result.res = "Err" =>
             copy.result.at \in {"poll_fill_buf", "poll_write_buf", "WriteZero",
                                 "poll_flush", "poll_shutdown"})

\* C29's case: one direction is Done with bytes moved while the other is
\* still Running and the copy has not returned.
C29_witness ==
    /\ copy.result.res = "Pending"
    /\ copy.a_to_b.state = "Done" /\ copy.a_to_b.count > 0
    /\ copy.b_to_a.state = "Running" /\ copy.b_to_a.buf.yielded = "write"

\* C30: a direction that is suspended on a blocked read (poll_copy returned
\* Pending from its read block, not from a pending flush) has need_flush
\* false: what it wrote before was flushed.
C30_flush_before_yield ==
    \A d \in Directions :
        (d.state = "Running" /\ d.buf.yielded = "read") => ~d.buf.need_flush

\* C30's case: a direction wrote a byte, then its read blocked, the flush
\* succeeded and it is suspended on the read.
C30_witness ==
    \E d \in Directions :
        /\ d.state = "Running" /\ d.buf.yielded = "read"
        /\ d.buf.written # <<>> /\ ~d.buf.need_flush

C25_prober_delay ==
    \A p \in DOMAIN probers : \A l \in DOMAIN tunnels :
        (tunnels[l].inst = probers[p].inst /\ l = probers[p].local) =>
            /\ probers[p].after = tunnels[l].options.dead_retry
            /\ probers[p].timeout = tunnels[l].options.connect_timeout

C26_witness_port ==
    /\ ret.op = "from_str" /\ ret.text = <<"2", "5", "6">>
    /\ ret.res = {[host |-> Localhost, port |-> 256]}

\* C27: a prober whose connect succeeded changes the registry only when its
\* remote is in dead_remotes of the tunnel registered under its local key,
\* and then only by moving that entry to remotes; a remote that is in
\* neither map of a tunnel, or whose tunnel is not registered, is in no map
\* after the step either.
C27_probe_success_guarded ==
    [][\A p \in DOMAIN probers :
         (probers[p].st = "scheduled" /\ probers'[p].st = "finished"
            /\ probers'[p].connected)
         => LET l == probers[p].local
                r == probers[p].remote
                found == l \in DOMAIN tunnels
                            /\ contains_key(tunnels[l].dead_remotes, r)
            IN /\ ~found => tunnels' = tunnels
               /\ DOMAIN tunnels' = DOMAIN tunnels
               /\ \A k \in DOMAIN tunnels : \A q \in RegRemoteKeys :
                     LET live == contains_key(tunnels[k].remotes, q)
                         dead == contains_key(tunnels[k].dead_remotes, q)
                         live2 == contains_key(tunnels'[k].remotes, q)
                         dead2 == contains_key(tunnels'[k].dead_remotes, q)
                     IN /\ (live2 /\ ~live) => (found /\ k = l /\ q = r /\ dead)
                        /\ (~live /\ ~dead) => (~live2 /\ ~dead2)
                        /\ dead2 => dead]_vars

\* C27's case: remote A of tunnel L was removed with remove_remote while
\* dead, its prober then connected, and A is in neither map.
C27_witness ==
    /\ ret.op = "remove_remote" /\ ret.res = "Ok"
    /\ "L" \in DOMAIN tunnels
    /\ \E p \in DOMAIN probers :
          /\ probers[p].connected /\ probers[p].local = "L"
          /\ probers[p].inst = tunnels["L"].inst
          /\ ~contains_key(tunnels["L"].remotes, probers[p].remote)
          /\ ~contains_key(tunnels["L"].dead_remotes, probers[p].remote)
          /\ ret.remote = Some(probers[p].remote)

\* C28: when a prober's connect fails and its remote is in dead_remotes of
\* the tunnel under its local key, the entry stays there with num_errors and
\* total_errors one higher and streams_pending unchanged, and a new prober
\* for the same tunnel and remote is scheduled whose handle the entry now
\* stores; and every entry of dead_remotes of a registered tunnel stores the
\* handle of a scheduled prober for that tunnel and remote.
C28_failed_probe_rearms ==
    /\ [][\A p \in DOMAIN probers :
            LET l == probers[p].local
                r == probers[p].remote
            IN (/\ probers[p].st = "scheduled" /\ probers'[p].st = "finished"
                /\ ~probers'[p].connected
                /\ l \in DOMAIN tunnels
                /\ contains_key(tunnels[l].dead_remotes, r))
               => /\ l \in DOMAIN tunnels'
                  /\ contains_key(tunnels'[l].dead_remotes, r)
                  /\ ~contains_key(tunnels'[l].remotes, r)
                  /\ LET d == get(tunnels[l].dead_remotes, r)
                         d2 == get(tunnels'[l].dead_remotes, r)
                         h == Len(probers) + 1
                     IN /\ d2.remote.num_errors = d.remote.num_errors + 1
                        /\ d2.remote.total_errors = d.remote.total_errors + 1
                        /\ d2.remote.streams_pending = d.remote.streams_pending
                        /\ Len(probers') = h
                        /\ probers'[h].st = "scheduled"
                        /\ probers'[h].local = l /\ probers'[h].remote = r
                        /\ d2.join_handle = Some(h)
                        /\ d2.join_handle # d.join_handle]_vars
    /\ [](\A l \in DOMAIN tunnels : \A r \in RegRemoteKeys :
            contains_key(tunnels[l].dead_remotes, r)
            => \E h \in get(tunnels[l].dead_remotes, r).join_handle :
                  /\ h \in DOMAIN probers
                  /\ probers[h].st = "scheduled"
                  /\ probers[h].local = l /\ probers[h].remote = r)

\* C28's case: a prober of remote A of tunnel L failed, A is still in
\* dead_remotes with two errors counted, and its entry stores the handle of
\* the prober scheduled in its place.
C28_witness ==
    /\ "L" \in DOMAIN tunnels
    /\ contains_key(tunnels["L"].dead_remotes, "A")
    /\ get(tunnels["L"].dead_remotes, "A").remote.total_errors >= 2
    /\ \E p \in DOMAIN probers :
          /\ probers[p].st = "finished" /\ ~probers[p].connected
          /\ probers[p].local = "L" /\ probers[p].remote = "A"
          /\ probers[p].inst = tunnels["L"].inst
          /\ get(tunnels["L"].dead_remotes, "A").join_handle = Some(p + 1)

\* The RemoteInfo a tunnel holds for key r, live or dead.
InfoOf(ti, r) ==
    IF contains_key(ti.remotes, r) THEN get(ti.remotes, r)
    ELSE get(ti.dead_remotes, r).remote

\* The remote keys of a tunnel, live or dead.
KeysOf(ti) == Keys(ti.remotes) \cup Keys(ti.dead_remotes)

\* C32: for every remote r of a registered tunnel, live or dead,
\* r.streams_open is the number of connections of that tunnel that are
\* spliced to r (remote_connected applied, client_disconnected not yet).
C32_streams_open_spliced ==
    \A l \in DOMAIN tunnels : \A r \in KeysOf(tunnels[l]) :
       InfoOf(tunnels[l], r).streams_open
          = Cardinality({c \in Clients :
                           /\ conns[c].pc = "copying"
                           /\ conns[c].tunnel_key = Some(l)
                           /\ conns[c].counted = Some(tunnels[l].inst)
                           /\ conns[c].connected_to = Some(r)})

\* C33: for every remote r of a registered tunnel, live or dead,
\* r.streams_pending is the number of connections of that tunnel that
\* selected r and have reported neither remote_connected nor remote_error.
C33_streams_pending_in_flight ==
    \A l \in DOMAIN tunnels : \A r \in KeysOf(tunnels[l]) :
       InfoOf(tunnels[l], r).streams_pending
          = Cardinality({c \in Clients :
                           /\ conns[c].pc = "connecting"
                           /\ conns[c].tunnel_key = Some(l)
                           /\ conns[c].counted = Some(tunnels[l].inst)
                           /\ conns[c].remote = Some(r)})

\* C34: for every dead remote of a registered tunnel at most one prober
\* task for that tunnel key and remote is scheduled.
C34_one_prober_per_dead_remote ==
    \A l \in DOMAIN tunnels : \A r \in Keys(tunnels[l].dead_remotes) :
       Cardinality({p \in DOMAIN probers :
                      /\ probers[p].st = "scheduled"
                      /\ probers[p].local = l
                      /\ probers[p].remote = r}) <= 1

\* C35: a step of a process_socket task whose client_connected was not
\* applied to the tunnel instance now registered under its tunnel key (it
\* was accepted under an earlier tunnel on that local) leaves the counters
\* of the registered tunnel as they are.
C35_old_connection_events ==
    [][\A c \in Clients : \A l \in DOMAIN tunnels :
         (/\ conns[c].pc # "idle" /\ conns[c].pc # "spawned"
          /\ conns'[c] # conns[c]
          /\ conns[c].tunnel_key = Some(l)
          /\ conns[c].rx # Some(tunnels[l].inst)
          /\ l \in DOMAIN tunnels')
         => /\ tunnels'[l].stats = tunnels[l].stats
            /\ tunnels'[l].remotes = tunnels[l].remotes
            /\ tunnels'[l].dead_remotes = tunnels[l].dead_remotes]_vars

C39_buffer_indices ==
    /\ [](\A d \in Directions :
            /\ 0 <= d.buf.pos /\ d.buf.pos <= d.buf.cap
            /\ d.buf.cap <= Len(d.buf.buf) /\ Len(d.buf.buf) = BufSize
            /\ d.buf.nread = Len(d.buf.written) + (d.buf.cap - d.buf.pos))
    /\ [][\A d \in {"a_to_b", "b_to_a"} :
            /\ copy[d].buf.read_done
                  => (copy'[d].buf.cap = copy[d].buf.cap
                      /\ copy'[d].buf.pos >= copy[d].buf.pos)
            /\ (copy'[d].buf.cap < copy[d].buf.cap
                   \/ copy'[d].buf.pos < copy[d].buf.pos)
                  => ~copy[d].buf.read_done]_vars

\* C39's case: a direction wrote out what it had buffered, took the indices
\* back to 0 and read again: bytes are written and the buffer holds unwritten
\* bytes from position 0.
C39_witness ==
    \E d \in Directions :
        /\ Len(d.buf.written) >= 1 /\ ~d.buf.read_done
        /\ d.buf.pos = 0 /\ d.buf.cap >= 1

\* C37: for every registered tunnel (none of whose remotes was removed),
\* stats.bytes_sent is the sum of bytes_sent over its remotes, live and
\* dead, and stats.bytes_received the sum of their bytes_received.
C37_bytes_is_sum ==
    \A l \in DOMAIN tunnels :
       LET infos == remote_infos(tunnels[l])
       IN /\ tunnels[l].stats.bytes_sent
                = Sum([i \in DOMAIN infos |-> infos[i].bytes_sent])
          /\ tunnels[l].stats.bytes_received
                = Sum([i \in DOMAIN infos |-> infos[i].bytes_received])

\* C40: set_default_tunnel_options is called at most once; it has been
\* called once, with the options of the Args, whenever a tunnel
\* specification has been parsed, the control interface is spawned or a
\* tunnel is registered; the static is never written after that; and every
\* tunnel started from a Tunnel with no options has the value written.
C40_default_written_once ==
    /\ [](/\ DEFAULT_TUNNEL_OPTIONS.writes <= 1
          /\ (\/ tasks.pc \in {"spawn", "launch", "pending"}
              \/ tasks.controller
              \/ DOMAIN tunnels # {}
              \/ tasks.opened # <<>>)
                => /\ DEFAULT_TUNNEL_OPTIONS.writes = 1
                   /\ DEFAULT_TUNNEL_OPTIONS.value = args_options(tasks.args)
          /\ \A l \in DOMAIN tunnels :
                tasks.opened[tunnels[l].inst] = None
                   => tunnels[l].options = args_options(tasks.args))
    /\ [][DEFAULT_TUNNEL_OPTIONS.writes >= 1
            => DEFAULT_TUNNEL_OPTIONS' = DEFAULT_TUNNEL_OPTIONS]_vars

\* C40's case: main was run with --remote-retries 1, and a tunnel whose
\* specification has no options is registered with remote_connect_retries 1
\* beside one opened through the control interface.
C40_witness ==
    /\ tasks.args.remote_retries = 1 /\ tasks.controller
    /\ DOMAIN tunnels = {"L", "M"}
    /\ tasks.opened[tunnels["L"].inst] = None
    /\ tunnels["L"].options.remote_connect_retries = 1
    /\ tasks.pc = "pending"

\* C36: of the start_tunnel calls that are in flight together for one local
\* key at most one returns Ok, unless remove_tunnel took the tunnel of one of
\* them out of the registry, and no add_tunnel replaces a TunnelInfo that is
\* installed, so that a Sender is dropped by remove_tunnel only.
C36_one_concurrent_add_succeeds ==
    /\ \A t \in Starters, u \in Starters :
          (t # u /\ u \in tasks[t].overlaps /\ tasks[t].local = tasks[u].local
                 /\ tasks[t].res = "Ok" /\ tasks[u].res = "Ok")
              => \E v \in {t, u} : tasks[v].sender \in {"removed", "sent"}
    /\ \A t \in Starters : tasks[t].sender # "overwritten"

\* C31: a task that is suspended at an await holds no guard of a tunnel
\* entry, and a task that asks for an entry's lock gets it whatever the
\* awaits of the other tasks do.
C31_no_guard_across_await ==
    /\ [](\A t \in LockTasks : Suspended(t) => tasks[t].guard = {})
    /\ \A t \in LockTasks : Locking(t) ~> ~Locking(t)

\* C31's case: the stop_tunnel call has asked for the lock of an entry and
\* removed it while the prober of that key sleeps and the connection's task
\* of that key waits for bytes.
C31_witness ==
    /\ tasks[Stopper].pc = "returned"
    /\ tasks[Stopper].res = "Ok"
    /\ tasks[Prober].kind = "check_dead"
    /\ tasks[Prober].pc \in {"sleep", "connect"}
    /\ tasks[Socket].pc = "copy_bidirectional"
    /\ tasks[Socket].local = tasks[Stopper].local
====
